---- MODULE Spec2Model ----
(***************************************************************************)
(* A model of the input layer of the `entrait` procedural macro            *)
(* (entrait_macros/src/input.rs): parsing of the decorated function into   *)
(* an EntraitFn (trait method inputs and call parameter list), and parsing *)
(* of the attribute arguments into an EntraitAttr; and of what the macro   *)
(* makes of them, as the crate documentation (src/lib.rs) shows it: the    *)
(* token stream of a decorated function, trait, impl block and module.     *)
(***************************************************************************)
EXTENDS Integers, Sequences, FiniteSets, TLC

VARIABLES
    fn_item,      \* the decorated function handed to EntraitFn::parse
    fn_result,    \* Pending, or the syn::Result<EntraitFn> of that parse
    attr_head,    \* the tokens of the attribute in front of its options
    attr_opts,    \* the options of the attribute, as written
    attr_result,  \* Pending, or the syn::Result<EntraitAttr> of the parse
    app,          \* the program run on the generated code: strategy, chain, inner value, arguments
    pc,           \* where that program is
    stack,        \* its call stack
    log,          \* the executions of original function bodies so far
    ret,          \* the value the last call returned
    direct,       \* what the direct call of the original function returned and logged
    decls,        \* the decorated functions of a compilation unit, one macro invocation each
    models,       \* per invocation: Pending, or what the parsing of its inputs gave
    outputs,      \* per invocation: Pending, or the token stream the invocation returned
    decl,         \* a decorated trait, impl block or module, with its resolved options
    expansion,    \* Pending, or the result of expanding that declaration
    resolved,     \* per run of the compiler: the attributes resolved so far, with their results
    build,        \* a build of the crate: its cargo features and the items its cfgs have kept
    mock,         \* the dependency value of a test: Impl, or a spy with its call patterns
    exec          \* the execution of that test

attr_vars == <<attr_head, attr_opts, attr_result>>
run_vars == <<app, pc, stack, log, ret, direct>>
unit_vars == <<decls, models, outputs>>
gen_vars == <<decl, expansion>>
test_vars == <<mock, exec>>
more_vars == <<resolved, build, mock, exec>>
vars == <<fn_item, fn_result, attr_head, attr_opts, attr_result, app, pc, stack, log, ret, direct,
          decls, models, outputs, decl, expansion, resolved, build, mock, exec>>

(***************************************************************************)
(* Bounds of the model.                                                    *)
(***************************************************************************)
MaxParams == 3
MaxOpts == 3
MaxChain == 2

(***************************************************************************)
(* syn::Result                                                             *)
(***************************************************************************)
Pending == [tag |-> "Pending"]
Ok(v) == [tag |-> "Ok", val |-> v]
Err(m) == [tag |-> "Err", msg |-> m]

Min(S) == CHOOSE x \in S : \A y \in S : x <= y

(***************************************************************************)
(* Function arguments (syn::FnArg).  A Receiver is `self` or `&self`; a    *)
(* Typed argument is `pat: ty`, where pat is an identifier pattern         *)
(* (syn::Pat::Ident), the wildcard `_` or a tuple pattern.                 *)
(***************************************************************************)
Receiver(ty) == [kind |-> "Receiver", pat |-> "Self", ident |-> "self", ty |-> ty]
Typed(pat, ident, ty) == [kind |-> "Typed", pat |-> pat, ident |-> ident, ty |-> ty]

\* syn::parse_quote! { &self }
RefSelf == Receiver("&Self")

\* the tokens `self` of quote! { self }
SelfToken == "self"

MissingDependencyParameter == "Function must take at least one parameter"
UnexpectedReceiverParameter == "Unexpected receiver arg"
NonIdentifierParameterPattern == "Expected ident for function argument"

\* A mutation of extract_trait_fn_inputs: `&self` is inserted in front of the
\* inputs instead of replacing the first one.
extract_trait_fn_inputs_prepend(sig) ==
    IF Len(sig.inputs) = 0
    THEN Err(MissingDependencyParameter)
    ELSE Ok(<<RefSelf>> \o sig.inputs)

\* A mutation of extract_trait_fn_inputs: no check for an empty list.
extract_trait_fn_inputs_unchecked(sig) ==
    Ok([i \in 1..Len(sig.inputs) |-> IF i = 1 THEN RefSelf ELSE sig.inputs[i]])

\* A mutation of extract_trait_fn_inputs: `&self` is written to the last
\* input (last_mut) instead of the first.
extract_trait_fn_inputs_last(sig) ==
    IF Len(sig.inputs) = 0
    THEN Err(MissingDependencyParameter)
    ELSE Ok([i \in 1..Len(sig.inputs) |-> IF i = Len(sig.inputs) THEN RefSelf ELSE sig.inputs[i]])

extract_trait_fn_inputs(sig) ==
    IF Len(sig.inputs) = 0
    THEN Err(MissingDependencyParameter)
    ELSE Ok([i \in 1..Len(sig.inputs) |-> IF i = 1 THEN RefSelf ELSE sig.inputs[i]])

\* A mutation of call_param: a typed parameter is forwarded by what it
\* binds whatever its pattern is.
call_param_any_pattern(index, arg) ==
    IF index = 0
    THEN Ok(SelfToken)
    ELSE IF arg.kind = "Receiver"
         THEN Err(UnexpectedReceiverParameter)
         ELSE Ok(arg.ident)

\* A mutation of call_param: without the case for index 0, the first
\* parameter is forwarded by its identifier like the others.
call_param_by_name(index, arg) ==
    IF arg.kind = "Receiver"
    THEN Err(UnexpectedReceiverParameter)
    ELSE IF arg.pat = "Ident"
         THEN Ok(arg.ident)
         ELSE Err(NonIdentifierParameterPattern)

\* The closure mapped over sig.inputs.iter().enumerate(); index counts from 0.
call_param(index, arg) ==
    IF index = 0
    THEN Ok(SelfToken)
    ELSE IF arg.kind = "Receiver"
         THEN Err(UnexpectedReceiverParameter)
         ELSE IF arg.pat = "Ident"
              THEN Ok(arg.ident)
              ELSE Err(NonIdentifierParameterPattern)

\* Iterator::collect::<Result<Vec<_>, _>>(): the first Err, else all values.
collect_result(rs) ==
    LET bad == {i \in 1..Len(rs) : rs[i].tag = "Err"}
    IN  IF bad # {}
        THEN rs[Min(bad)]
        ELSE Ok([i \in 1..Len(rs) |-> rs[i].val])

\* A mutation of extract_call_param_list: the parameters after `self` are
\* emitted in reverse order.
extract_call_param_list_reversed(sig) ==
    LET n == Len(sig.inputs)
        r == collect_result([i \in 1..n |-> call_param(i - 1, sig.inputs[i])])
    IN  IF r.tag = "Err"
        THEN r
        ELSE Ok([i \in 1..n |-> IF i = 1 THEN r.val[1] ELSE r.val[n + 2 - i]])

extract_call_param_list(sig) ==
    collect_result([i \in 1..Len(sig.inputs) |-> call_param(i - 1, sig.inputs[i])])

UnexpectedMethodReceiver == "unexpected method receiver"
UnexpectedSecondMethodReceiver == "unexpected second method receiver"

\* The positions after the first at which a signature, as written, has a receiver.
LaterReceivers(sig) == {i \in 2..Len(sig.inputs) : sig.inputs[i].kind = "Receiver"}

\* `let fn_sig: syn::Signature = input.parse()?`: syn accepts a receiver as
\* the first argument only; at the first receiver after it the parse fails,
\* with "unexpected second method receiver" when the first argument is a
\* receiver and with "unexpected method receiver" otherwise.
parse_Signature(sig) ==
    IF LaterReceivers(sig) = {}
    THEN Ok(sig)
    ELSE IF sig.inputs[1].kind = "Receiver"
         THEN Err(UnexpectedSecondMethodReceiver)
         ELSE Err(UnexpectedMethodReceiver)

\* A mutation of EntraitFn::parse: the `&self` is written into the inputs of
\* the signature itself instead of a clone of them.
EntraitFn_parse_in_place(item) ==
    LET fn_sig == parse_Signature(item.fn_sig)
        t == extract_trait_fn_inputs(item.fn_sig)
        c == extract_call_param_list(item.fn_sig)
    IN  IF fn_sig.tag = "Err" THEN fn_sig
        ELSE IF t.tag = "Err" THEN t
        ELSE IF c.tag = "Err" THEN c
        ELSE Ok([fn_attrs |-> item.fn_attrs,
                 fn_vis |-> item.fn_vis,
                 fn_sig |-> [item.fn_sig EXCEPT !.inputs = t.val],
                 fn_body |-> item.fn_body,
                 trait_fn_inputs |-> t.val,
                 call_param_list |-> c.val])

\* A mutation of EntraitFn::parse: the error of the second extraction is
\* dropped and an EntraitFn without call parameter list is returned.
EntraitFn_parse_partial(item) ==
    LET fn_sig == parse_Signature(item.fn_sig)
        t == extract_trait_fn_inputs(item.fn_sig)
        c == extract_call_param_list(item.fn_sig)
    IN  IF fn_sig.tag = "Err" THEN fn_sig
        ELSE IF t.tag = "Err" THEN t
        ELSE Ok([fn_attrs |-> item.fn_attrs,
                 fn_vis |-> item.fn_vis,
                 fn_sig |-> item.fn_sig,
                 fn_body |-> item.fn_body,
                 trait_fn_inputs |-> t.val,
                 call_param_list |-> IF c.tag = "Err" THEN <<>> ELSE c.val])

\* impl Parse for EntraitFn.  The item is the function as written.  The
\* four parses come first, each with `?`: the outer attributes, the
\* visibility and the body (kept as tokens) of the items here always parse,
\* the signature fails on a receiver after the first argument.  Then the
\* two extractions, each with `?`, then the EntraitFn.
EntraitFn_parse(item) ==
    LET fn_sig == parse_Signature(item.fn_sig)
    IN  IF fn_sig.tag = "Err" THEN fn_sig
        ELSE
        LET t == extract_trait_fn_inputs(fn_sig.val)
            c == extract_call_param_list(fn_sig.val)
        IN  IF t.tag = "Err" THEN t
            ELSE IF c.tag = "Err" THEN c
            ELSE Ok([fn_attrs |-> item.fn_attrs,
                     fn_vis |-> item.fn_vis,
                     fn_sig |-> fn_sig.val,
                     fn_body |-> item.fn_body,
                     trait_fn_inputs |-> t.val,
                     call_param_list |-> c.val])

(***************************************************************************)
(* The functions the model parses.                                         *)
(***************************************************************************)
ParamIdents == {"a", "b", "c"}
ParamTypes == {"i32", "&str"}

\* `self: Box<Self>`: with a type of its own the parameter `self` is, to
\* syn, a typed argument with an identifier pattern and no receiver.
TypedSelf == Typed("Ident", "self", "Box<Self>")

FnArgs ==
    {Receiver(ty) : ty \in {"Self", "&Self"}}
    \cup {TypedSelf}
    \cup {Typed("Ident", x, ty) : x \in ParamIdents, ty \in ParamTypes}
    \cup {Typed("Wild", "_", ty) : ty \in ParamTypes}
    \cup {Typed("Tuple", "(a, b)", "(i32, i32)")}

SeqsUpTo(S, n) == UNION {[1..k -> S] : k \in 0..n}

FnItems ==
    {[fn_attrs |-> <<>>, fn_vis |-> v, fn_sig |-> [ident |-> "f", inputs |-> ins], fn_body |-> b] :
        v \in {"", "pub"}, ins \in SeqsUpTo(FnArgs, MaxParams), b \in {"{ n * 2 }"}}

NoFnItem == [fn_attrs |-> <<>>, fn_vis |-> "", fn_sig |-> [ident |-> "f", inputs |-> <<>>], fn_body |-> ""]

\* Nothing runs: the state of the program in the specifications of the parsers.
NoRun ==
    /\ app = [strategy |-> "Function", chain |-> 0, inner |-> "()", actuals |-> <<>>]
    /\ pc = "off"
    /\ stack = <<>>
    /\ log = <<>>
    /\ ret = <<>>
    /\ direct = <<>>

\* No compilation unit is expanded: the state of the expansion in the
\* specifications of the parsers and of the generated code.
NoUnit ==
    /\ decls = <<>>
    /\ models = <<>>
    /\ outputs = <<>>

NoDecl ==
    /\ decl = [kind |-> "None"]
    /\ expansion = Pending

NoResolutions == resolved = <<>>

NoBuild == build = [kind |-> "None"]

NoTest ==
    /\ mock = [kind |-> "None"]
    /\ exec = [kind |-> "None"]

InitFn ==
    /\ fn_item \in FnItems
    /\ fn_result = Pending
    /\ attr_head = <<>>
    /\ attr_opts = <<>>
    /\ attr_result = Pending
    /\ NoRun
    /\ NoUnit
    /\ NoDecl
    /\ NoResolutions
    /\ NoBuild
    /\ NoTest

ParseFn ==
    /\ fn_result = Pending
    /\ fn_result' = EntraitFn_parse(fn_item)
    /\ UNCHANGED <<more_vars, unit_vars, gen_vars, fn_item, attr_vars, run_vars>>

NextFn == ParseFn

SpecFn == InitFn /\ [][NextFn]_vars

(***************************************************************************)
(* Properties of EntraitFn::parse, checked under SpecFn.                   *)
(***************************************************************************)
FnInputs == fn_item.fn_sig.inputs
FnParsed == fn_result.tag = "Ok"
FnFailedWith(m) == fn_result = Err(m)

\* The positions after the first (Rust positions >= 1) that hold a receiver,
\* and those that hold a typed parameter whose pattern is no identifier.
ReceiverPositions == {i \in 2..Len(FnInputs) : FnInputs[i].kind = "Receiver"}
NonIdentPositions ==
    {i \in 2..Len(FnInputs) : FnInputs[i].kind = "Typed" /\ FnInputs[i].pat # "Ident"}

\* C1. Arity law, dependency-slot mode: when the parse of a function with
\* n >= 1 parameters succeeds, the trait method has exactly n inputs, the
\* first is the receiver `&self`, and exactly n - 1 inputs are no receiver.
C1_ArityLaw ==
    (FnParsed /\ Len(FnInputs) >= 1) =>
        LET tfi == fn_result.val.trait_fn_inputs
        IN  /\ Len(tfi) = Len(FnInputs)
            /\ tfi[1] = RefSelf
            /\ Cardinality({i \in 1..Len(tfi) : tfi[i].kind # "Receiver"}) = Len(FnInputs) - 1

C1_Witness == FnParsed /\ Len(FnInputs) = MaxParams

\* C2. Call-argument identity: when the parse succeeds, the call parameter
\* list is as long as the parameter list, its first entry is `self`, and
\* every later entry is the identifier the parameter at that position binds.
C2_CallArgumentIdentity ==
    FnParsed =>
        LET cpl == fn_result.val.call_param_list
        IN  /\ Len(cpl) = Len(FnInputs)
            /\ cpl[1] = SelfToken
            /\ \A i \in 2..Len(FnInputs) :
                  /\ FnInputs[i].kind = "Typed"
                  /\ FnInputs[i].pat = "Ident"
                  /\ cpl[i] = FnInputs[i].ident

C2_Witness ==
    /\ FnParsed
    /\ Len(FnInputs) = 3
    /\ FnInputs[2].ident # FnInputs[3].ident

\* C4. A function without parameters is rejected with "Function must take at
\* least one parameter", and with no other error; no EntraitFn is produced.
C4_EmptyListRejected ==
    (fn_result # Pending /\ Len(FnInputs) = 0) => FnFailedWith(MissingDependencyParameter)

C4_Witness == fn_result # Pending /\ Len(FnInputs) = 0

\* The positions after the first that hold a parameter `self`, with or
\* without a type of its own.
SelfPositions == {i \in 2..Len(FnInputs) : FnInputs[i].ident = "self"}

\* C5, as claimed: a parameter `self` at any position other than the first
\* makes the parse fail with "Unexpected receiver arg".
C5_AsClaimed ==
    (fn_result # Pending /\ SelfPositions # {}) => FnFailedWith(UnexpectedReceiverParameter)

\* C6, as claimed: a non-identifier pattern at any position other than the
\* first makes the parse fail with "Expected ident for function argument".
C6_AsClaimed ==
    (fn_result # Pending /\ NonIdentPositions # {}) => FnFailedWith(NonIdentifierParameterPattern)

\* C6, amended: a non-identifier pattern at a position other than the first
\* makes the parse fail; the error is "Expected ident for function argument"
\* when no receiver (`self` or `&self` without a type of its own) stands
\* after the first parameter, and the error of the
\* signature parse otherwise, wherever that receiver stands.  When every
\* parameter after the first is typed with an identifier pattern, the call
\* parameter list is built: the parse of a function with at least one
\* parameter succeeds.
C6_NonIdentRejected ==
    /\ (fn_result # Pending /\ NonIdentPositions # {}) =>
          IF ReceiverPositions = {}
          THEN FnFailedWith(NonIdentifierParameterPattern)
          ELSE fn_result = parse_Signature(fn_item.fn_sig) /\ fn_result.tag = "Err"
    /\ (fn_result # Pending /\ Len(FnInputs) >= 1
            /\ ReceiverPositions = {} /\ NonIdentPositions = {}) =>
          /\ FnParsed
          /\ Len(fn_result.val.call_param_list) = Len(FnInputs)

C6_Witness ==
    /\ FnFailedWith(NonIdentifierParameterPattern)
    /\ Len(FnInputs) = MaxParams
    /\ FnInputs[1].kind = "Receiver"
    /\ FnInputs[2].pat = "Ident"
    /\ FnInputs[3].pat = "Wild"

\* C24. The dependency slot is exempt from the identifier requirement:
\* whatever the first parameter is (an identifier, `_`, a tuple pattern, a
\* receiver, by value or by reference), the parse succeeds when every later
\* parameter binds an identifier, and the slot is `&self` in the trait
\* method inputs and `self` in the call parameter list.
C24_SlotExempt ==
    (/\ fn_result # Pending
     /\ Len(FnInputs) >= 1
     /\ ReceiverPositions = {}
     /\ NonIdentPositions = {}) =>
        /\ FnParsed
        /\ fn_result.val.trait_fn_inputs[1] = RefSelf
        /\ fn_result.val.call_param_list[1] = SelfToken

C24_Witness ==
    /\ FnParsed
    /\ Len(FnInputs) = MaxParams
    /\ FnInputs[1] = Typed("Wild", "_", "i32")

\* C27. Deriving the trait method inputs changes position 0 only: for every
\* parsed signature with n >= 1 parameters the derivation succeeds, its first input
\* is `&self`, every later input is the parameter at that position as
\* written, and the signature the EntraitFn stores is the one parsed.
C27_OnlySlotChanges ==
    (fn_result # Pending /\ Len(FnInputs) >= 1 /\ ReceiverPositions = {}) =>
        LET t == extract_trait_fn_inputs(fn_item.fn_sig)
        IN  /\ t.tag = "Ok"
            /\ Len(t.val) = Len(FnInputs)
            /\ t.val[1] = RefSelf
            /\ \A i \in 2..Len(FnInputs) : t.val[i] = FnInputs[i]
            /\ FnParsed =>
                  /\ fn_result.val.trait_fn_inputs = t.val
                  /\ fn_result.val.fn_sig = fn_item.fn_sig

C27_Witness ==
    /\ FnParsed
    /\ Len(FnInputs) = MaxParams
    /\ FnInputs[1].kind = "Typed"
    /\ FnInputs[2] # FnInputs[3]

(***************************************************************************)
(* The attribute arguments.  A token is an identifier (keywords, `true`    *)
(* and `false` included, as in proc_macro2) or a punctuation mark; a       *)
(* ParseStream is the token sequence and the position of its cursor.       *)
(***************************************************************************)
IdentTok(s) == [kind |-> "Ident", text |-> s]
PunctTok(s) == [kind |-> "Punct", text |-> s]

\* The identifier tokens that syn::Ident::parse rejects (accept_as_ident of
\* syn 1.0: `_` and the keywords of the language; `dyn`, `async`, `await`
\* and `try` are identifiers to it).
Keywords ==
    {"_", "abstract", "as", "become", "box", "break", "const", "continue", "crate", "do",
     "else", "enum", "extern", "false", "final", "fn", "for", "if", "impl", "in", "let",
     "loop", "macro", "match", "mod", "move", "mut", "override", "priv", "pub", "ref",
     "return", "Self", "self", "static", "struct", "super", "trait", "true", "type",
     "typeof", "unsafe", "unsized", "use", "virtual", "where", "while", "yield"}

\* A successful parse and the cursor after it.
POk(v, pos) == [tag |-> "Ok", val |-> v, pos |-> pos]

\* The messages of syn.  Where syn quotes a token with backquotes the text
\* here holds the token alone: a string of the notation cannot hold one.
ExpectedIdentifier == "expected identifier"
ExpectedEq == "expected ="
ExpectedLt == "expected <"
ExpectedFn == "expected fn"
ExpectedParentheses == "expected parentheses"
ExpectedBooleanLiteral == "expected boolean literal"
ExpectedType ==
    "expected one of: for, parentheses, fn, unsafe, extern, identifier, ::, <, "
    \o "square brackets, *, &, !, impl, _, lifetime"
UnknownOption(ident_string) == "Unkonwn entrait extension \"" \o ident_string \o "\""

\* cursor.error(message): at the end of the input the message says so.
error_at(tokens, pos, message) ==
    IF pos > Len(tokens)
    THEN Err("unexpected end of input, " \o message)
    ELSE Err(message)

\* input.peek(token)
peek(tokens, pos, kind, text) ==
    pos <= Len(tokens) /\ tokens[pos].kind = kind /\ tokens[pos].text = text

\* input.parse::<syn::Ident>()
parse_Ident(tokens, pos) ==
    IF pos <= Len(tokens) /\ tokens[pos].kind = "Ident" /\ tokens[pos].text \notin Keywords
    THEN POk(tokens[pos].text, pos + 1)
    ELSE error_at(tokens, pos, ExpectedIdentifier)

\* input.parse::<syn::token::Eq>(): the error of a punctuation mark is the
\* same at the end of the input.
parse_Eq(tokens, pos) ==
    IF peek(tokens, pos, "Punct", "=")
    THEN POk("=", pos + 1)
    ELSE Err(ExpectedEq)

\* input.parse::<syn::LitBool>()?.value()
parse_LitBool(tokens, pos) ==
    IF pos <= Len(tokens) /\ tokens[pos].kind = "Ident" /\ tokens[pos].text \in {"true", "false"}
    THEN POk(tokens[pos].text = "true", pos + 1)
    ELSE error_at(tokens, pos, ExpectedBooleanLiteral)

\* The keywords a path may start with.
PathKeywords == {"Self", "self", "super", "crate"}

\* syn::PathSegment, without generic arguments
parse_PathSegment(tokens, pos) ==
    IF pos <= Len(tokens) /\ tokens[pos].kind = "Ident" /\ tokens[pos].text \in PathKeywords
    THEN POk(tokens[pos].text, pos + 1)
    ELSE parse_Ident(tokens, pos)

\* syn::TraitBound: `for` opens bound lifetimes, whose `<` must follow;
\* otherwise the path of the trait.
parse_TraitBound(tokens, pos) ==
    IF peek(tokens, pos, "Ident", "for")
    THEN Err(ExpectedLt)
    ELSE parse_PathSegment(tokens, pos)

\* syn::TypeBareFn: the bound lifetimes come first, and a `for` that opens
\* them must be followed by `<`; then `unsafe` and `extern` may precede
\* `fn`, whose argument list in parentheses must follow.
parse_BareFn(tokens, pos) ==
    IF peek(tokens, pos, "Ident", "for")
    THEN Err(ExpectedLt)
    ELSE
    LET p1 == IF peek(tokens, pos, "Ident", "unsafe") THEN pos + 1 ELSE pos
        p2 == IF peek(tokens, p1, "Ident", "extern") THEN p1 + 1 ELSE p1
    IN  IF peek(tokens, p2, "Ident", "fn")
        THEN error_at(tokens, p2 + 1, ExpectedParentheses)
        ELSE error_at(tokens, p2, ExpectedFn)

\* input.parse::<syn::Type>(), on streams of identifiers, keywords, `,` and
\* `=`: a path of one segment, `_`, and `dyn` or `impl` with one trait are
\* types; the other tokens start no type, or one that needs a token the
\* streams do not hold.
parse_Type(tokens, pos) ==
    IF pos > Len(tokens) \/ tokens[pos].kind # "Ident"
    THEN error_at(tokens, pos, ExpectedType)
    ELSE LET text == tokens[pos].text
         IN  CASE text = "for" -> Err(ExpectedLt)
               [] text \in {"fn", "unsafe", "extern"} -> parse_BareFn(tokens, pos)
               [] text \in {"dyn", "impl"} ->
                     LET bound == parse_TraitBound(tokens, pos + 1)
                     IN  IF bound.tag = "Err" THEN bound
                         ELSE POk(text \o " " \o bound.val, bound.pos)
               [] text = "_" \/ text \in PathKeywords \/ text \notin Keywords ->
                     POk(text, pos + 1)
               [] OTHER -> Err(ExpectedType)

None == <<>>
Some(x) == <<x>>

Extension(variant, value) == [variant |-> variant, value |-> value]

\* The match of Extension::parse on the identifier, the cursor being after `=`.
Extension_match(ident_string, tokens, pos) ==
    LET b == parse_LitBool(tokens, pos)
        i == parse_Ident(tokens, pos)
    IN  CASE ident_string = "debug" ->
                IF b.tag = "Err" THEN b ELSE POk(Extension("Debug", b.val), b.pos)
          [] ident_string = "async_trait" ->
                IF b.tag = "Err" THEN b ELSE POk(Extension("AsyncTrait", b.val), b.pos)
          [] ident_string = "mockable" ->
                IF b.tag = "Err" THEN b ELSE POk(Extension("Mockable", b.val), b.pos)
          [] ident_string = "mock_deps_as" ->
                IF i.tag = "Err" THEN i ELSE POk(Extension("MockDepsAs", i.val), i.pos)
          [] OTHER -> Err(UnknownOption(ident_string))

\* impl Parse for Extension
Extension_parse(tokens, pos) ==
    LET ident == parse_Ident(tokens, pos)
    IN  IF ident.tag = "Err" THEN ident
        ELSE LET eq == parse_Eq(tokens, ident.pos)
             IN  IF eq.tag = "Err" THEN eq
                 ELSE Extension_match(ident.val, tokens, eq.pos)

\* A mutation of apply_extension: the AsyncTrait arm assigns `debug` as well.
apply_extension_wrong_field(opts, ext) ==
    CASE ext.variant = "Debug" -> [opts EXCEPT !.debug = ext.value]
      [] ext.variant = "AsyncTrait" -> [opts EXCEPT !.async_trait = ext.value, !.debug = ext.value]
      [] ext.variant = "Mockable" -> [opts EXCEPT !.mockable = ext.value]
      [] ext.variant = "MockDepsAs" -> [opts EXCEPT !.mock_deps = Some(ext.value)]

\* A mutation of apply_extension: the MockDepsAs arm turns `mockable` on too.
apply_extension_coupled(opts, ext) ==
    CASE ext.variant = "Debug" -> [opts EXCEPT !.debug = ext.value]
      [] ext.variant = "AsyncTrait" -> [opts EXCEPT !.async_trait = ext.value]
      [] ext.variant = "Mockable" -> [opts EXCEPT !.mockable = ext.value]
      [] ext.variant = "MockDepsAs" -> [opts EXCEPT !.mock_deps = Some(ext.value), !.mockable = TRUE]

\* The match of EntraitAttr::parse on the parsed Extension: one assignment.
apply_extension(opts, ext) ==
    CASE ext.variant = "Debug" -> [opts EXCEPT !.debug = ext.value]
      [] ext.variant = "AsyncTrait" -> [opts EXCEPT !.async_trait = ext.value]
      [] ext.variant = "Mockable" -> [opts EXCEPT !.mockable = ext.value]
      [] ext.variant = "MockDepsAs" -> [opts EXCEPT !.mock_deps = Some(ext.value)]

\* The locals of EntraitAttr::parse in front of its loop.
DefaultOpts == [debug |-> FALSE, async_trait |-> FALSE, mockable |-> FALSE, mock_deps |-> None]

\* The loop of EntraitAttr::parse: while a comma follows, an Extension.
RECURSIVE parse_extensions(_, _, _)
parse_extensions(tokens, pos, opts) ==
    IF peek(tokens, pos, "Punct", ",")
    THEN LET ext == Extension_parse(tokens, pos + 1)
         IN  IF ext.tag = "Err" THEN ext
             ELSE parse_extensions(tokens, ext.pos, apply_extension(opts, ext.val))
    ELSE POk(opts, pos)

\* impl Parse for EntraitAttr, the cursor being at pos.
EntraitAttr_parse(tokens, pos) ==
    LET trait_ident == parse_Ident(tokens, pos)
    IN  IF trait_ident.tag = "Err" THEN trait_ident
        ELSE
        LET impl_target_type ==
                IF peek(tokens, trait_ident.pos, "Ident", "for")
                THEN LET ty == parse_Type(tokens, trait_ident.pos + 1)
                     IN  IF ty.tag = "Err" THEN ty ELSE POk(Some(ty.val), ty.pos)
                ELSE POk(None, trait_ident.pos)
        IN  IF impl_target_type.tag = "Err" THEN impl_target_type
            ELSE
            LET opts == parse_extensions(tokens, impl_target_type.pos, DefaultOpts)
            IN  IF opts.tag = "Err" THEN opts
                ELSE POk([trait_ident |-> trait_ident.val,
                          impl_target_type |-> impl_target_type.val,
                          debug |-> opts.val.debug,
                          async_trait |-> opts.val.async_trait,
                          mockable |-> opts.val.mockable,
                          mock_deps_as |-> opts.val.mock_deps],
                         opts.pos)

(***************************************************************************)
(* The attributes the model parses: a head and a list of options, each     *)
(* option a key alone or `key = value`.                                    *)
(***************************************************************************)
BoolKeys == {"debug", "async_trait", "mockable"}
IdentKeys == {"mock_deps_as"}
RecognizedKeys == BoolKeys \cup IdentKeys
UnknownKeys == {"foo"}

Bare(k) == [key |-> k, eq |-> FALSE, value |-> ""]
Assign(k, v) == [key |-> k, eq |-> TRUE, value |-> v]

OptionForms ==
    {Bare(k) : k \in BoolKeys \cup IdentKeys \cup UnknownKeys}
    \cup {Assign(k, v) : k \in BoolKeys, v \in {"true", "false", "MockFoo"}}
    \cup {Assign(k, v) : k \in IdentKeys, v \in {"MockFoo", "true"}}
    \cup {Assign(k, v) : k \in UnknownKeys, v \in {"true"}}

PlainHead == <<IdentTok("Foo")>>

\* `pub Foo`: a visibility in front of the trait name
PubHead == <<IdentTok("pub"), IdentTok("Foo")>>

\* `delegate_by = Borrow`: an attribute of options only, without trait name
OptionsOnlyHead == <<IdentTok("delegate_by"), PunctTok("="), IdentTok("Borrow")>>

Heads ==
    {PlainHead,
     PubHead,
     <<IdentTok("Foo"), IdentTok("for"), IdentTok("T")>>,
     OptionsOnlyHead,
     <<>>}

OptionTokens(o) ==
    <<PunctTok(","), IdentTok(o.key)>>
    \o (IF o.eq THEN <<PunctTok("="), IdentTok(o.value)>> ELSE <<>>)

RECURSIVE OptionListTokens(_)
OptionListTokens(opts) ==
    IF opts = <<>> THEN <<>>
    ELSE OptionTokens(Head(opts)) \o OptionListTokens(Tail(opts))

\* The token stream of `#[entrait(head, option, ...)]`.
AttrTokens(head, opts) == head \o OptionListTokens(opts)

\* The resolution of an attribute: EntraitAttr::parse from the first token.
Resolve(head, opts) == EntraitAttr_parse(AttrTokens(head, opts), 1)

InitAttr ==
    /\ attr_head \in Heads
    /\ attr_opts \in SeqsUpTo(OptionForms, MaxOpts)
    /\ attr_head # PlainHead => Len(attr_opts) <= 1
    /\ attr_result = Pending
    /\ fn_item = NoFnItem
    /\ fn_result = Pending
    /\ NoRun
    /\ NoUnit
    /\ NoDecl
    /\ NoResolutions
    /\ NoBuild
    /\ NoTest

ParseAttr ==
    /\ attr_result = Pending
    /\ attr_result' = Resolve(attr_head, attr_opts)
    /\ UNCHANGED <<more_vars, unit_vars, gen_vars, fn_item, fn_result, attr_head, attr_opts, run_vars>>

NextAttr == ParseAttr

SpecAttr == InitAttr /\ [][NextAttr]_vars

(***************************************************************************)
(* Properties of EntraitAttr::parse, checked under SpecAttr.               *)
(***************************************************************************)
AttrDone == attr_result # Pending
AttrResolved == attr_result.tag = "Ok"

OptIndices == 1..Len(attr_opts)

\* An option the parser accepts: `key = value` with a recognized key and a
\* value of the key's type.
WellFormed(o) ==
    /\ o.eq
    /\ \/ o.key \in BoolKeys /\ o.value \in {"true", "false"}
       \/ o.key \in IdentKeys /\ o.value \notin Keywords

\* An option the documentation calls valid: a well-formed one, or a boolean
\* key without value.
Documented(o) == WellFormed(o) \/ (~o.eq /\ o.key \in BoolKeys)

UnknownPositions == {i \in OptIndices : attr_opts[i].key \notin RecognizedKeys}

DistinctKeys(opts) ==
    \A i, j \in 1..Len(opts) : i # j => opts[i].key # opts[j].key

\* The field of the EntraitAttr an option key sets.
Field(attr, k) ==
    CASE k = "debug" -> attr.debug
      [] k = "async_trait" -> attr.async_trait
      [] k = "mockable" -> attr.mockable
      [] k = "mock_deps_as" -> attr.mock_deps_as

\* The value a well-formed option assigns to its field.
Assigned(o) == IF o.key \in BoolKeys THEN o.value = "true" ELSE Some(o.value)

Max(S) == CHOOSE x \in S : \A y \in S : x >= y

Orders(n) == {p \in [1..n -> 1..n] : \A i, j \in 1..n : i # j => p[i] # p[j]}

\* C7, as claimed: an option list with an unrecognized key, all its other
\* options being valid ones, resolves to the error that names the (first)
\* unrecognized key, and never to a configuration.
C7_AsClaimed ==
    (/\ AttrDone
     /\ attr_head = PlainHead
     /\ UnknownPositions # {}
     /\ \A i \in OptIndices \ UnknownPositions : Documented(attr_opts[i])) =>
        attr_result = Err(UnknownOption(attr_opts[Min(UnknownPositions)].key))

\* C8, as claimed: an option list that assigns a recognized key more than
\* once is rejected; no configuration is produced.
C8_AsClaimed ==
    (/\ AttrDone
     /\ attr_head = PlainHead
     /\ \A i \in OptIndices : WellFormed(attr_opts[i])
     /\ ~DistinctKeys(attr_opts)) =>
        attr_result.tag = "Err"

\* The option list with `k = true` in the place of every bare boolean key k.
WithTrue(opts) ==
    [i \in 1..Len(opts) |->
        IF ~opts[i].eq /\ opts[i].key \in BoolKeys
        THEN Assign(opts[i].key, "true")
        ELSE opts[i]]

\* C9, as claimed: an option list of valid options that holds a boolean key
\* without value resolves, and to the configuration that the list with
\* `key = true` in its place resolves to.
C9_AsClaimed ==
    (/\ AttrDone
     /\ attr_head = PlainHead
     /\ \A i \in OptIndices : Documented(attr_opts[i])
     /\ \E i \in OptIndices : ~attr_opts[i].eq) =>
        /\ AttrResolved
        /\ attr_result = Resolve(attr_head, WithTrue(attr_opts))

\* C10. Order-insensitivity: a list of valid options with pairwise distinct
\* keys resolves to the same result in every order of its options, and to a
\* configuration when every option is written `key = value`.
C10_OrderInsensitive ==
    (/\ AttrDone
     /\ attr_head = PlainHead
     /\ \A i \in OptIndices : Documented(attr_opts[i])
     /\ DistinctKeys(attr_opts)) =>
        /\ (\A i \in OptIndices : WellFormed(attr_opts[i])) => AttrResolved
        /\ \A p \in Orders(Len(attr_opts)) :
              Resolve(attr_head, [i \in OptIndices |-> attr_opts[p[i]]]) = attr_result

C10_Witness ==
    /\ AttrResolved
    /\ Len(attr_opts) = MaxOpts
    /\ DistinctKeys(attr_opts)
    /\ \E i \in OptIndices : attr_opts[i].key \in BoolKeys /\ attr_opts[i].value = "true"
    /\ \E i \in OptIndices : attr_opts[i].key \in BoolKeys /\ attr_opts[i].value = "false"

\* C19, as claimed: a visibility token in front of the trait name is
\* accepted, with or without options after the name, as a name without
\* visibility token is.
C19_AsClaimed ==
    (/\ AttrDone
     /\ attr_head \in {PubHead, PlainHead}
     /\ \A i \in OptIndices : WellFormed(attr_opts[i])) =>
        /\ AttrResolved
        /\ attr_result.val.trait_ident = "Foo"

\* C20, as claimed: an attribute without trait name, empty or of options
\* only, resolves, and no token of it is taken for the trait name.
C20_AsClaimed ==
    (/\ AttrDone
     /\ attr_head \in {<<>>, OptionsOnlyHead}
     /\ attr_opts = <<>>) =>
        /\ AttrResolved
        /\ attr_result.val.trait_ident \notin {attr_head[i].text : i \in 1..Len(attr_head)}

(***************************************************************************)
(* The generated code at run time.  The function parsed by ParseFn stands  *)
(* at every level of a chain of entraited functions: the function of level *)
(* k < chain has a generic dependency and calls the trait method of level  *)
(* k + 1 on it with its own arguments; the function of the last level is   *)
(* the delegation target and returns what it was called with.  The program *)
(* calls the first function directly, then the trait method of the first   *)
(* level on the same Impl<T> with the same arguments.                      *)
(***************************************************************************)
\* Impl::new(inner), Impl::as_ref() and Borrow::borrow() to the trait object
Impl(inner) == [impl_of |-> inner]
as_ref(wrapper) == [inner |-> wrapper.impl_of]
borrow(t) == [dyn_of |-> t.inner]

Strategies == {"Function", "SelfBound", "RefUpcast", "Named"}

\* The dependency argument of the generated delegation for the receiver
\* `self`: `f(self)` for a function, `self.as_ref().m()` for a trait,
\* `self.as_ref().borrow().m()` with delegate_by = Borrow, and
\* `<T as Delegate<T>>::Target::m(self)` with a delegation trait.
delegate_dep(strategy, self) ==
    CASE strategy = "Function" -> self
      [] strategy = "SelfBound" -> as_ref(self)
      [] strategy = "RefUpcast" -> borrow(as_ref(self))
      [] strategy = "Named" -> self

\* The parameters of the generated trait method, bound to the arguments of a
\* call of it: the identifier of each input after `&self` to its argument.
bind_params(trait_fn_inputs, actuals) ==
    [x \in {trait_fn_inputs[i].ident : i \in 2..Len(trait_fn_inputs)} |->
        actuals[(CHOOSE i \in 2..Len(trait_fn_inputs) : trait_fn_inputs[i].ident = x) - 1]]

\* The arguments of the call in the generated method body, `f(#call_param_list)`,
\* evaluated in the scope of the method.
call_args(call_param_list, self, env) ==
    [i \in 1..Len(call_param_list) |->
        IF call_param_list[i] = SelfToken THEN self ELSE env[call_param_list[i]]]

Frame(kind, level, dep, args) == [kind |-> kind, level |-> level, dep |-> dep, args |-> args]

Top == stack[Len(stack)]
Pop == SubSeq(stack, 1, Len(stack) - 1)

\* The dependency value the function of a level is called with.
level_dep(level, self) ==
    IF level = app.chain THEN delegate_dep(app.strategy, self) ELSE self

\* The program calls the original function of the first level.
CallDirect ==
    /\ fn_result.tag = "Ok"
    /\ pc = "start"
    /\ direct = <<>>
    /\ stack' = <<Frame("fn", 1, level_dep(1, Impl(app.inner)), app.actuals)>>
    /\ pc' = "fn"
    /\ UNCHANGED <<more_vars, unit_vars, gen_vars, fn_item, fn_result, attr_vars, app, log, ret, direct>>

\* The program calls the trait method of the first level on Impl<T>.
CallMethod ==
    /\ fn_result.tag = "Ok"
    /\ pc = "start"
    /\ direct # <<>>
    /\ stack' = <<Frame("method", 1, Impl(app.inner), app.actuals)>>
    /\ pc' = "method"
    /\ UNCHANGED <<more_vars, unit_vars, gen_vars, fn_item, fn_result, attr_vars, app, log, ret, direct>>

\* The body of the generated trait method: the call of the function.
Forward ==
    /\ pc = "method"
    /\ LET m == Top
           env == bind_params(fn_result.val.trait_fn_inputs, m.args)
           args == call_args(fn_result.val.call_param_list, m.dep, env)
       IN  stack' = Pop \o <<Frame("fn", m.level, level_dep(m.level, args[1]), Tail(args))>>
    /\ pc' = "fn"
    /\ UNCHANGED <<more_vars, unit_vars, gen_vars, fn_item, fn_result, attr_vars, app, log, ret, direct>>

\* The body of an original function that calls the next trait method.
CallDependency ==
    /\ pc = "fn"
    /\ Top.level < app.chain
    /\ log' = Append(log, <<Top.level, Top.dep, Top.args>>)
    /\ stack' = stack \o <<Frame("method", Top.level + 1, Top.dep, Top.args)>>
    /\ pc' = "method"
    /\ UNCHANGED <<more_vars, unit_vars, gen_vars, fn_item, fn_result, attr_vars, app, ret, direct>>

\* The body of the last original function.
ReturnLeaf ==
    /\ pc = "fn"
    /\ Top.level = app.chain
    /\ log' = Append(log, <<Top.level, Top.dep, Top.args>>)
    /\ ret' = <<Top.dep, Top.args>>
    /\ stack' = Pop
    /\ pc' = "return"
    /\ UNCHANGED <<more_vars, unit_vars, gen_vars, fn_item, fn_result, attr_vars, app, direct>>

\* An original function returns what the method it called returned.
Return ==
    /\ pc = "return"
    /\ stack # <<>>
    /\ stack' = Pop
    /\ UNCHANGED <<more_vars, unit_vars, gen_vars, fn_item, fn_result, attr_vars, app, pc, log, ret, direct>>

\* The direct call has returned: the program goes on to the call of the method.
DirectReturned ==
    /\ pc = "return"
    /\ stack = <<>>
    /\ direct = <<>>
    /\ direct' = <<[ret |-> ret, log |-> log]>>
    /\ log' = <<>>
    /\ ret' = <<>>
    /\ pc' = "start"
    /\ UNCHANGED <<more_vars, unit_vars, gen_vars, fn_item, fn_result, attr_vars, app, stack>>

\* The call of the method has returned.
MethodReturned ==
    /\ pc = "return"
    /\ stack = <<>>
    /\ direct # <<>>
    /\ pc' = "done"
    /\ UNCHANGED <<more_vars, unit_vars, gen_vars, fn_item, fn_result, attr_vars, app, stack, log, ret, direct>>

ArgValues == {21, 42}
InnerValues == {"()", "State(42)"}

\* The functions the program is built from: a dependency parameter and
\* parameters that bind pairwise distinct identifiers, as rustc requires.
RunItems ==
    {it \in FnItems :
        /\ it.fn_vis = ""
        /\ Len(it.fn_sig.inputs) >= 1
        /\ it.fn_sig.inputs[1] \in {Typed("Ident", "a", "&str"), Typed("Wild", "_", "&str")}
        /\ \A i \in 2..Len(it.fn_sig.inputs) :
              /\ it.fn_sig.inputs[i].pat = "Ident"
              /\ it.fn_sig.inputs[i].ty = "i32"
              /\ \A j \in 1..(i - 1) :
                    it.fn_sig.inputs[j].pat = "Ident"
                        => it.fn_sig.inputs[j].ident # it.fn_sig.inputs[i].ident}

InitRun ==
    /\ fn_item \in RunItems
    /\ fn_result = Pending
    /\ attr_head = <<>>
    /\ attr_opts = <<>>
    /\ attr_result = Pending
    /\ app \in {[strategy |-> s, chain |-> n, inner |-> t, actuals |-> as] :
                    s \in Strategies, n \in 1..MaxChain, t \in InnerValues,
                    as \in [1..(Len(fn_item.fn_sig.inputs) - 1) -> ArgValues]}
    /\ pc = "start"
    /\ stack = <<>>
    /\ log = <<>>
    /\ ret = <<>>
    /\ direct = <<>>
    /\ NoUnit
    /\ NoDecl
    /\ NoResolutions
    /\ NoBuild
    /\ NoTest

NextRun ==
    \/ ParseFn
    \/ CallDirect
    \/ CallMethod
    \/ Forward
    \/ CallDependency
    \/ ReturnLeaf
    \/ Return
    \/ DirectReturned
    \/ MethodReturned

SpecRun == InitRun /\ [][NextRun]_vars

(***************************************************************************)
(* Properties of the generated code at run time, checked under SpecRun.    *)
(***************************************************************************)
\* C3. Forwarding transparency: with each delegation strategy and through a
\* chain of entraited functions, the trait method called on Impl<T> returns
\* what the direct call of the original function with the same dependency
\* value and arguments returned, and the same original function bodies have
\* run with the same dependency values and arguments, in the same order.
C3_ForwardingTransparency ==
    pc = "done" =>
        /\ ret = direct[1].ret
        /\ log = direct[1].log

C3_Witness ==
    /\ pc = "done"
    /\ app.strategy = "RefUpcast"
    /\ app.chain = MaxChain
    /\ Len(app.actuals) = 2
    /\ app.actuals[1] # app.actuals[2]
    /\ Len(log) = MaxChain

(***************************************************************************)
(* One invocation of the macro on a function: the attribute is parsed,     *)
(* and the function only once the attribute is resolved.                   *)
(***************************************************************************)
\* The option lists that select what the first parameter is (lib.rs 627-636).
NoDepsKey == "no_deps"
NoDepsOptions ==
    {<<>>,
     <<Assign(NoDepsKey, "true")>>,
     <<Bare(NoDepsKey)>>,
     <<Assign(NoDepsKey, "false")>>}

InitMacro ==
    /\ attr_head = PlainHead
    /\ attr_opts \in NoDepsOptions
    /\ attr_result = Pending
    /\ fn_item \in FnItems
    /\ fn_result = Pending
    /\ NoRun
    /\ NoUnit
    /\ NoDecl
    /\ NoResolutions
    /\ NoBuild
    /\ NoTest

ParseItem ==
    /\ AttrResolved
    /\ ParseFn

NextMacro ==
    \/ ParseAttr
    \/ ParseItem

SpecMacro == InitMacro /\ [][NextMacro]_vars

\* The invocation is over: the attribute failed, or the function is parsed.
MacroDone == AttrDone /\ (~AttrResolved \/ fn_result # Pending)

NoDepsRequested == attr_opts \in {<<Assign(NoDepsKey, "true")>>, <<Bare(NoDepsKey)>>}

\* C13, as claimed: with no_deps = true (written out or bare) the invocation
\* succeeds for every function whose parameters are typed, the one without
\* parameters included, and the trait method takes the parameters of the
\* function unchanged, the first included.
C13_AsClaimed ==
    (/\ MacroDone
     /\ NoDepsRequested
     /\ \A i \in 1..Len(FnInputs) : FnInputs[i].kind = "Typed") =>
        /\ AttrResolved
        /\ FnParsed
        /\ fn_result.val.trait_fn_inputs = FnInputs

(***************************************************************************)
(* A compilation unit of decorated functions.  The compiler invokes the    *)
(* macro once per decorated function, in no order the macro can rely on;   *)
(* an invocation parses its inputs and then returns its token stream: the  *)
(* function as written followed by the generated trait and its             *)
(* implementation for Impl<T>, or the error alone.                         *)
(***************************************************************************)
MaxDecls == 2

FnItem(vis, inputs) ==
    [fn_attrs |-> <<>>, fn_vis |-> vis, fn_sig |-> [ident |-> "f", inputs |-> inputs],
     fn_body |-> "{ n * 2 }"]

UnitItems ==
    {FnItem("", <<>>),
     FnItem("pub", <<Typed("Ident", "a", "i32")>>),
     FnItem("", <<Typed("Ident", "a", "i32"), Typed("Ident", "b", "&str")>>),
     FnItem("", <<Typed("Ident", "a", "i32"), Typed("Wild", "_", "i32")>>),
     FnItem("", <<Typed("Ident", "a", "i32"), Receiver("&Self")>>)}

UnitOptions == {<<>>, <<Assign("debug", "true")>>, <<Assign("foo", "true")>>}

UnitDecls == {[head |-> PlainHead, opts |-> o, item |-> it] : o \in UnitOptions, it \in UnitItems}

\* The parsing of the two inputs of an invocation, the attribute first.
parse_decl(d) ==
    LET a == Resolve(d.head, d.opts)
    IN  IF a.tag = "Err" THEN Err(a.msg)
        ELSE LET f == EntraitFn_parse(d.item)
             IN  IF f.tag = "Err" THEN Err(f.msg)
                 ELSE Ok([attr |-> a.val, func |-> f.val])

\* The items of a token stream.
FnTokens(attrs, vis, sig, body) ==
    [kind |-> "Fn", fn_attrs |-> attrs, fn_vis |-> vis, fn_sig |-> sig, fn_body |-> body]
TraitTokens(ident, methods) == [kind |-> "Trait", ident |-> ident, methods |-> methods]
ImplTokens(trait, self_ty, methods) ==
    [kind |-> "Impl", trait |-> trait, self_ty |-> self_ty, methods |-> methods]

\* The generated items of a function: the trait with the one method, and its
\* implementation for Impl<T> whose method calls the function.
gen_items(attr, func) ==
    <<TraitTokens(attr.trait_ident,
                  <<[ident |-> func.fn_sig.ident, inputs |-> func.trait_fn_inputs]>>),
      ImplTokens(attr.trait_ident, "Impl<T>",
                 <<[ident |-> func.fn_sig.ident, inputs |-> func.trait_fn_inputs,
                    callee |-> func.fn_sig.ident, args |-> func.call_param_list]>>)>>

\* The token stream an invocation returns.
output_tokens(m) ==
    IF m.tag = "Err"
    THEN [items |-> <<>>, compile_error |-> Some(m.msg)]
    ELSE [items |-> <<FnTokens(m.val.func.fn_attrs, m.val.func.fn_vis,
                               m.val.func.fn_sig, m.val.func.fn_body)>>
                    \o gen_items(m.val.attr, m.val.func),
          compile_error |-> None]

InitUnit ==
    /\ decls \in SeqsUpTo(UnitDecls, MaxDecls)
    /\ Len(decls) >= 1
    /\ models = [i \in 1..Len(decls) |-> Pending]
    /\ outputs = [i \in 1..Len(decls) |-> Pending]
    /\ fn_item = NoFnItem
    /\ fn_result = Pending
    /\ attr_head = <<>>
    /\ attr_opts = <<>>
    /\ attr_result = Pending
    /\ NoRun
    /\ NoDecl
    /\ NoResolutions
    /\ NoBuild
    /\ NoTest

ParseDecl(i) ==
    /\ models[i] = Pending
    /\ models' = [models EXCEPT ![i] = parse_decl(decls[i])]
    /\ UNCHANGED <<more_vars, decls, outputs, gen_vars, fn_item, fn_result, attr_vars, run_vars>>

EmitDecl(i) ==
    /\ models[i] # Pending
    /\ outputs[i] = Pending
    /\ outputs' = [outputs EXCEPT ![i] = output_tokens(models[i])]
    /\ UNCHANGED <<more_vars, decls, models, gen_vars, fn_item, fn_result, attr_vars, run_vars>>

NextUnit ==
    \/ \E i \in 1..Len(decls) : ParseDecl(i)
    \/ \E i \in 1..Len(decls) : EmitDecl(i)

SpecUnit == InitUnit /\ [][NextUnit]_vars

DeclIndices == 1..Len(decls)
Emitted(i) == outputs[i] # Pending
Expanded(i) == Emitted(i) /\ outputs[i].compile_error = None

\* What is wrong with a declaration, read off the declaration: an option that
\* is not `key = value` for a recognized key, no parameter, or a parameter
\* after the first that is a receiver or binds no identifier.
InvalidOptions(opts) == \E k \in 1..Len(opts) : ~WellFormed(opts[k])
InvalidInputs(inputs) ==
    \/ Len(inputs) = 0
    \/ \E k \in 2..Len(inputs) : inputs[k].kind = "Receiver" \/ inputs[k].pat # "Ident"
Invalid(d) == InvalidOptions(d.opts) \/ InvalidInputs(d.item.fn_sig.inputs)

\* C11. Append-only: the token stream of every expanded function starts with
\* the function as written (attributes, visibility, signature, body), and
\* all that follows is generated: a trait and an implementation, no function.
C11_AppendOnly ==
    \A i \in DeclIndices :
        Expanded(i) =>
            LET items == outputs[i].items
                item == decls[i].item
            IN  /\ Len(items) > 1
                /\ items[1] = FnTokens(item.fn_attrs, item.fn_vis, item.fn_sig, item.fn_body)
                /\ \A k \in 2..Len(items) : items[k].kind \in {"Trait", "Impl"}

C11_Witness ==
    /\ Len(decls) = MaxDecls
    /\ \A i \in DeclIndices : Emitted(i)
    /\ \E i \in DeclIndices :
          /\ Expanded(i)
          /\ Len(decls[i].item.fn_sig.inputs) > 1
          /\ decls[i].item.fn_vis = "pub" \/ decls[i].opts # <<>>

\* The token stream of a declaration expanded alone.
Alone(d) == output_tokens(parse_decl(d))

\* C12. Failure is local and total: whatever the order of the steps of the
\* invocations, an invalid declaration gets no model and no item, only its
\* error, and every declaration gets the token stream that it gets when it
\* is expanded alone.
C12_FailureLocalAndTotal ==
    \A i \in DeclIndices :
        /\ (models[i] # Pending /\ Invalid(decls[i])) => models[i].tag = "Err"
        /\ Emitted(i) =>
              /\ Invalid(decls[i]) =>
                    /\ outputs[i].items = <<>>
                    /\ outputs[i].compile_error # None
              /\ ~Invalid(decls[i]) => Expanded(i)
              /\ outputs[i] = Alone(decls[i])

\* An invalid declaration has failed while another one is parsed and not
\* yet emitted, and a valid one is expanded.
C12_Witness ==
    /\ Len(decls) = MaxDecls
    /\ \E i, j \in DeclIndices :
          /\ i < j
          /\ Invalid(decls[j]) /\ Emitted(j)
          /\ ~Invalid(decls[i]) /\ models[i] # Pending /\ ~Emitted(i)
    /\ \E i \in DeclIndices :
          /\ InvalidInputs(decls[i].item.fn_sig.inputs) /\ ~InvalidOptions(decls[i].opts)
          /\ Emitted(i)

(***************************************************************************)
(* The macro on a trait, on an impl block and on a module: the declaration *)
(* with its resolved options, and the items of its expansion.              *)
(***************************************************************************)
MaxMethods == 3

MethodNames == {"foo", "bar", "baz"}

\* The parameters of a method after its first one.
TrailingParams ==
    {<<>>,
     <<Typed("Ident", "a", "i32")>>,
     <<Typed("Ident", "a", "i32"), Typed("Ident", "b", "&str")>>}

Sig(ident, inputs) == [ident |-> ident, inputs |-> inputs]

\* `deps: &D`, the dependency parameter of a function, and `_impl: &Impl<T>`,
\* the first parameter of a method of a delegation target.
DepsParam == Typed("Ident", "deps", "&D")
ImplParam == Typed("Ident", "_impl", "&Impl<T>")

Body(ident) == "{ " \o ident \o "_body }"

DistinctNames(sigs) ==
    \A i, j \in 1..Len(sigs) : i # j => sigs[i].ident # sigs[j].ident

\* The methods of a hand-written trait, `fn m(&self, ...)`
TraitMethodLists ==
    {ms \in SeqsUpTo({Sig(n, <<RefSelf>> \o ps) : n \in MethodNames, ps \in TrailingParams},
                     MaxMethods) : DistinctNames(ms)}

\* The methods of a delegation target, `fn m(_impl: &Impl<T>, ...)`
TargetMethodLists ==
    {ms \in SeqsUpTo({Sig(n, <<ImplParam>> \o ps) : n \in MethodNames, ps \in TrailingParams},
                     MaxMethods) : DistinctNames(ms)}

\* The functions of an impl block or of a module, `vis fn m(deps: &D, ...) body`
Fn(vis, ident, ps) ==
    [fn_attrs |-> <<>>, fn_vis |-> vis, fn_sig |-> Sig(ident, <<DepsParam>> \o ps),
     fn_body |-> Body(ident)]

FnLists(Vis) ==
    {fs \in SeqsUpTo({Fn(v, n, ps) : v \in Vis, n \in MethodNames, ps \in TrailingParams},
                     MaxMethods) : DistinctNames([i \in 1..Len(fs) |-> fs[i].fn_sig])}

\* The trait name and the delegate_by option of a decorated trait: the
\* cases 2 to 5 of the crate docs.  A name stands for the delegation target
\* to generate, and comes with `Borrow` or with the name of a selector.
TraitOptions ==
    {[name |-> None, delegate_by |-> None],
     [name |-> None, delegate_by |-> Some("Self")],
     [name |-> None, delegate_by |-> Some("Borrow")],
     [name |-> Some("FooImpl"), delegate_by |-> Some("Borrow")],
     [name |-> Some("FooImpl"), delegate_by |-> Some("DelegateFoo")],
     [name |-> Some("FooImpl"), delegate_by |-> Some("Selector")]}

TraitDecls ==
    {[kind |-> "Trait", ident |-> "Foo", name |-> o.name, delegate_by |-> o.delegate_by,
      methods |-> ms] : o \in TraitOptions, ms \in TraitMethodLists}

\* `#[entrait] impl FooImpl for MyFoo { fns }`, with the methods the trait
\* FooImpl<T> declares.
ImplDecls ==
    {[kind |-> "Impl", trait |-> "FooImpl", self_ty |-> "MyFoo", fns |-> fs,
      trait_methods |-> tms] : fs \in FnLists({""}), tms \in TargetMethodLists}

\* `#[entrait(MyModule)] mod my_module { fns }`
Visibilities == {"", "pub", "pub(crate)"}

ModDecls ==
    {[kind |-> "Mod", ident |-> "my_module", name |-> "MyModule", fns |-> fs] :
        fs \in FnLists(Visibilities)}

\* ---- the delegation of a trait ----

\* The delegation the option delegate_by selects.
strategy_of(delegate_by) ==
    IF delegate_by = None \/ delegate_by = Some("Self")
    THEN [strategy |-> "SelfBound", by |-> "Self"]
    ELSE IF delegate_by = Some("Borrow")
    THEN [strategy |-> "RefUpcast", by |-> "Borrow"]
    ELSE [strategy |-> "Named", by |-> delegate_by[1]]

\* A mutation of delegation_bound: by Borrow the trait object is always one
\* of the decorated trait.
delegation_bound_by_trait(trait, name, st) ==
    CASE st.strategy = "SelfBound" -> "T: " \o trait
      [] st.strategy = "RefUpcast" -> "T: ::core::borrow::Borrow<dyn " \o trait \o "> + 'static"
      [] st.strategy = "Named" -> "T: " \o st.by \o "<T>"

\* The bound of T in `impl<T: bound> Trait for Impl<T>`.  By Borrow the
\* inner value is borrowed as a trait object: of the decorated trait, or of
\* the delegation target when the attribute names one.
delegation_bound(trait, name, st) ==
    CASE st.strategy = "SelfBound" -> "T: " \o trait
      [] st.strategy = "RefUpcast" ->
            "T: ::core::borrow::Borrow<dyn "
            \o (IF name = None THEN trait ELSE name[1] \o "<T>") \o "> + 'static"
      [] st.strategy = "Named" -> "T: " \o st.by \o "<T>"

\* What a method of that impl calls its namesake on.
delegation_target(st) ==
    CASE st.strategy = "SelfBound" -> "self.as_ref()"
      [] st.strategy = "RefUpcast" -> "self.as_ref().borrow()"
      [] st.strategy = "Named" -> "<T as " \o st.by \o "<T>>::Target"

\* The identifiers of the parameters after the first.
trailing_args(sig) == Tail(extract_call_param_list(sig).val)

\* The arguments of that call: a method of the decorated trait takes the
\* trailing arguments, a method of a delegation target takes `self`, the
\* reference to Impl<T>, in front of them.
delegation_args(name, sig) ==
    IF name # None
    THEN <<SelfToken>> \o trailing_args(sig)
    ELSE trailing_args(sig)

\* A method of a generated impl: the signature, and the call that is its body.
ForwardingMethod(sig, target, callee, args) ==
    [ident |-> sig.ident, inputs |-> sig.inputs,
     target |-> target, callee |-> callee, args |-> args]

\* A mutation of static_method: the receiver is kept.
static_method_receiver(sig) == sig

\* The method of the delegation target for a method of the trait: a static
\* function with `_impl: &Impl<T>` for the receiver.
static_method(sig) == Sig(sig.ident, <<ImplParam>> \o Tail(sig.inputs))

\* The method of a delegation target that is used as a trait object: the
\* receiver stays, for the dispatch, and `_impl: &Impl<T>` follows it.
dyn_method(sig) == Sig(sig.ident, <<RefSelf, ImplParam>> \o Tail(sig.inputs))

\* `impl<T: bound> Trait for Impl<T> { methods }`
BoundedImplTokens(bound, trait, self_ty, methods) ==
    [kind |-> "Impl", bound |-> bound, trait |-> trait, self_ty |-> self_ty,
     methods |-> methods]

\* `trait Ident<T> { methods }`, the delegation target
TargetTraitTokens(ident, methods) ==
    [kind |-> "Trait", ident |-> ident, generics |-> <<"T">>, methods |-> methods,
     types |-> <<>>]

\* `trait Ident<T> { type Target: Bound; }`, the delegation selector
SelectorTraitTokens(ident, bound) ==
    [kind |-> "Trait", ident |-> ident, generics |-> <<"T">>, methods |-> <<>>,
     types |-> <<[ident |-> "Target", bound |-> bound]>>]

\* The decorated trait as written.
OriginalTrait(d) ==
    [kind |-> "Trait", ident |-> d.ident, generics |-> <<>>, methods |-> d.methods,
     types |-> <<>>]

\* The expansion of a decorated trait: the trait, the delegation target when
\* the attribute names one (with static methods and a selector under Named
\* delegation, with methods of a trait object by Borrow), and the impl of
\* the trait for Impl<T>.
expand_trait(d) ==
    LET st == strategy_of(d.delegate_by)
        helpers ==
            IF st.strategy = "Named"
            THEN <<TargetTraitTokens(d.name[1],
                                     [i \in 1..Len(d.methods) |-> static_method(d.methods[i])]),
                   SelectorTraitTokens(st.by, d.name[1] \o "<T>")>>
            ELSE IF st.strategy = "RefUpcast" /\ d.name # None
            THEN <<TargetTraitTokens(d.name[1],
                                     [i \in 1..Len(d.methods) |-> dyn_method(d.methods[i])])>>
            ELSE <<>>
        methods ==
            [i \in 1..Len(d.methods) |->
                ForwardingMethod(d.methods[i], delegation_target(st), d.methods[i].ident,
                                 delegation_args(d.name, d.methods[i]))]
    IN  Ok(<<OriginalTrait(d)>> \o helpers
           \o <<BoundedImplTokens(delegation_bound(d.ident, d.name, st), d.ident, "Impl<T>",
                                  methods)>>)

\* ---- the split of an impl block ----

SignatureMismatch(method_name) == "SignatureMismatch(" \o method_name \o ")"

\* A function of the block matches a method of the trait: same name, same
\* number of parameters, same types after the first parameter, which is the
\* dependency in the one and `_impl: &Impl<T>` in the other.
Types(inputs) == [i \in 1..Len(inputs) |-> inputs[i].ty]

matches(fn_sig, method) ==
    /\ fn_sig.ident = method.ident
    /\ Len(fn_sig.inputs) = Len(method.inputs)
    /\ Types(Tail(fn_sig.inputs)) = Types(Tail(method.inputs))

\* A mutation of mismatches: the names alone are compared.
mismatches_by_name(d) ==
    {i \in 1..Len(d.fns) :
        ~\E k \in 1..Len(d.trait_methods) : d.fns[i].fn_sig.ident = d.trait_methods[k].ident}

\* The functions of the block that match no method of the trait.
mismatches(d) ==
    {i \in 1..Len(d.fns) :
        ~\E k \in 1..Len(d.trait_methods) : matches(d.fns[i].fn_sig, d.trait_methods[k])}

\* `impl SelfTy { fns }`
InherentImplTokens(self_ty, fns) == [kind |-> "InherentImpl", self_ty |-> self_ty, fns |-> fns]

\* `fn m(_impl: &Impl<T>, ...) { Self::m(_impl, ...) }` for the i-th function
inherent_call(fns, i) ==
    ForwardingMethod(static_method(fns[i].fn_sig), "Self", fns[i].fn_sig.ident,
                     <<ImplParam.ident>> \o trailing_args(fns[i].fn_sig))

expand_impl(d) ==
    IF mismatches(d) # {}
    THEN Err(SignatureMismatch(d.fns[Min(mismatches(d))].fn_sig.ident))
    ELSE Ok(<<InherentImplTokens(d.self_ty, d.fns),
              BoundedImplTokens("T", d.trait \o "<T>", d.self_ty,
                                [i \in 1..Len(d.fns) |-> inherent_call(d.fns, i)])>>)

\* ---- the trait of a module ----

\* A mutation of non_private: the functions are taken in reverse.
non_private_reversed(fns) ==
    LET keep == {i \in 1..Len(fns) : fns[i].fn_vis # ""}
        n == Cardinality(keep)
        nth(k) == CHOOSE i \in keep : Cardinality({j \in keep : j > i}) = k - 1
    IN  [k \in 1..n |-> fns[nth(k)]]

\* The functions of the module that are not private, in their order.
non_private(fns) ==
    LET keep == {i \in 1..Len(fns) : fns[i].fn_vis # ""}
        n == Cardinality(keep)
        nth(k) == CHOOSE i \in keep : Cardinality({j \in keep : j < i}) = k - 1
    IN  [k \in 1..n |-> fns[nth(k)]]

\* The decorated module as written.
OriginalMod(d) == [kind |-> "Mod", ident |-> d.ident, fns |-> d.fns]

expand_mod(d) ==
    LET fns == non_private(d.fns)
        entrait_fns == [k \in 1..Len(fns) |-> EntraitFn_parse(fns[k])]
        failed == {k \in 1..Len(fns) : entrait_fns[k].tag = "Err"}
    IN  IF failed # {} THEN Err(entrait_fns[Min(failed)].msg)
        ELSE Ok(<<OriginalMod(d),
                  TraitTokens(d.name,
                      [k \in 1..Len(fns) |->
                          Sig(fns[k].fn_sig.ident, entrait_fns[k].val.trait_fn_inputs)]),
                  ImplTokens(d.name, "Impl<T>",
                      [k \in 1..Len(fns) |->
                          ForwardingMethod(
                              Sig(fns[k].fn_sig.ident, entrait_fns[k].val.trait_fn_inputs),
                              d.ident, fns[k].fn_sig.ident,
                              entrait_fns[k].val.call_param_list)])>>)

\* ---- one expansion ----

InitGen ==
    /\ decl \in TraitDecls \cup ImplDecls \cup ModDecls
    /\ expansion = Pending
    /\ fn_item = NoFnItem
    /\ fn_result = Pending
    /\ attr_head = <<>>
    /\ attr_opts = <<>>
    /\ attr_result = Pending
    /\ NoRun
    /\ NoUnit
    /\ NoResolutions
    /\ NoBuild
    /\ NoTest

ExpandTrait ==
    /\ expansion = Pending
    /\ decl.kind = "Trait"
    /\ expansion' = expand_trait(decl)
    /\ UNCHANGED <<more_vars, decl, unit_vars, fn_item, fn_result, attr_vars, run_vars>>

ExpandImpl ==
    /\ expansion = Pending
    /\ decl.kind = "Impl"
    /\ expansion' = expand_impl(decl)
    /\ UNCHANGED <<more_vars, decl, unit_vars, fn_item, fn_result, attr_vars, run_vars>>

ExpandMod ==
    /\ expansion = Pending
    /\ decl.kind = "Mod"
    /\ expansion' = expand_mod(decl)
    /\ UNCHANGED <<more_vars, decl, unit_vars, fn_item, fn_result, attr_vars, run_vars>>

NextGen ==
    \/ ExpandTrait
    \/ ExpandImpl
    \/ ExpandMod

SpecGen == InitGen /\ [][NextGen]_vars

ExpansionOk(kind) == decl.kind = kind /\ expansion.tag = "Ok"
ExpansionFailed(kind) == decl.kind = kind /\ expansion.tag = "Err"
Items == expansion.val
ItemsOfKind(kind) == {k \in 1..Len(Items) : Items[k].kind = kind}

(***************************************************************************)
(* Properties of the expansions, checked under SpecGen.                    *)
(***************************************************************************)
\* The identifiers the parameters after the first bind.
TrailingIdents(inputs) == [i \in 1..(Len(inputs) - 1) |-> inputs[i + 1].ident]

\* The impl of the decorated trait for Impl<T> in the expansion.
TraitImpls == ItemsOfKind("Impl")
NewTraits == ItemsOfKind("Trait") \ {1}
ImplTargets(impl) == {impl.methods[i].target : i \in 1..Len(impl.methods)}

\* C14, as claimed: the delegation is decided by delegate_by alone; with
\* `Borrow` the bound of the impl is `T: Borrow<dyn Trait>`, Trait being the
\* decorated trait, whatever else the attribute holds.
C14_AsClaimed ==
    (ExpansionOk("Trait") /\ decl.delegate_by = Some("Borrow")) =>
        \A k \in TraitImpls :
            Items[k].bound \in {"T: ::core::borrow::Borrow<dyn " \o decl.ident \o ">",
                                "T: ::core::borrow::Borrow<dyn " \o decl.ident \o "> + 'static"}

\* C14, amended.  The strategy is decided by delegate_by alone, and there is
\* exactly one impl of the trait for Impl<T>: without the option or with
\* `Self` its bound is `T: Trait` and it delegates to self.as_ref(); with
\* `Borrow` it delegates to self.as_ref().borrow(); with any other
\* identifier X a trait X is generated, the bound is `T: X<T>` and it
\* delegates to X's Target.  The bound by `Borrow` depends on the trait
\* name of the attribute as well: without a name it is
\* `T: Borrow<dyn Trait> + 'static` and no trait is generated, with a name
\* N the trait N<T> is generated and the bound is
\* `T: Borrow<dyn N<T>> + 'static`.
C14_StrategyFromDelegateBy ==
    ExpansionOk("Trait") =>
        LET by == decl.delegate_by
        IN  /\ Cardinality(TraitImpls) = 1
            /\ \A k \in TraitImpls :
                  LET impl == Items[k]
                  IN  /\ impl.trait = decl.ident
                      /\ impl.self_ty = "Impl<T>"
                      /\ Len(impl.methods) = Len(decl.methods)
                      /\ by \in {None, Some("Self")} =>
                            /\ impl.bound = "T: " \o decl.ident
                            /\ ImplTargets(impl) \subseteq {"self.as_ref()"}
                            /\ NewTraits = {}
                      /\ by = Some("Borrow") =>
                            /\ ImplTargets(impl) \subseteq {"self.as_ref().borrow()"}
                            /\ decl.name = None =>
                                  /\ impl.bound = "T: ::core::borrow::Borrow<dyn "
                                                      \o decl.ident \o "> + 'static"
                                  /\ NewTraits = {}
                            /\ decl.name # None =>
                                  /\ impl.bound = "T: ::core::borrow::Borrow<dyn "
                                                      \o decl.name[1] \o "<T>> + 'static"
                                  /\ Cardinality(NewTraits) = 1
                                  /\ \A t \in NewTraits : Items[t].ident = decl.name[1]
                      /\ by \notin {None, Some("Self"), Some("Borrow")} =>
                            /\ impl.bound = "T: " \o by[1] \o "<T>"
                            /\ ImplTargets(impl) \subseteq {"<T as " \o by[1] \o "<T>>::Target"}
                            /\ \E t \in NewTraits : Items[t].ident = by[1]

C14_Witness ==
    /\ ExpansionOk("Trait")
    /\ Len(decl.methods) = MaxMethods
    /\ decl.delegate_by = Some("Borrow")
    /\ decl.name # None

NamedDelegation ==
    decl.kind = "Trait" /\ decl.delegate_by \notin {None, Some("Self"), Some("Borrow")}

\* C15. Under Named delegation two traits are generated besides the
\* decorated one: the delegation target, with the methods of the decorated
\* trait as static functions that take `_impl: &Impl<T>` for the receiver,
\* and the selector, whose only member is the type Target bound by the
\* delegation target; every method of the impl for Impl<T> calls its
\* namesake on Target with `self` and the trailing arguments.
C15_NamedDelegationTraits ==
    (NamedDelegation /\ ExpansionOk("Trait")) =>
        LET new_traits == ItemsOfKind("Trait") \ {1}
            impl == Items[Len(Items)]
            n == Len(decl.methods)
        IN  /\ Items[1].ident = decl.ident
            /\ Cardinality(new_traits) = 2
            /\ \E t, s \in new_traits :
                  /\ t # s
                  /\ Items[t].ident = decl.name[1]
                  /\ Items[t].types = <<>>
                  /\ Len(Items[t].methods) = n
                  /\ \A i \in 1..n :
                        LET m == Items[t].methods[i]
                        IN  /\ m.ident = decl.methods[i].ident
                            /\ Len(m.inputs) = Len(decl.methods[i].inputs)
                            /\ m.inputs[1] = ImplParam
                            /\ \A k \in 1..Len(m.inputs) : m.inputs[k].kind # "Receiver"
                            /\ Tail(m.inputs) = Tail(decl.methods[i].inputs)
                  /\ Items[s].ident = decl.delegate_by[1]
                  /\ Items[s].methods = <<>>
                  /\ Items[s].types = <<[ident |-> "Target", bound |-> decl.name[1] \o "<T>"]>>
            /\ impl.kind = "Impl"
            /\ Len(impl.methods) = n
            /\ \A i \in 1..n :
                  /\ impl.methods[i].target = "<T as " \o decl.delegate_by[1] \o "<T>>::Target"
                  /\ impl.methods[i].callee = decl.methods[i].ident
                  /\ impl.methods[i].args =
                        <<SelfToken>> \o TrailingIdents(decl.methods[i].inputs)

C15_Witness ==
    /\ NamedDelegation
    /\ ExpansionOk("Trait")
    /\ Len(decl.methods) > 1
    /\ \E i \in 1..Len(decl.methods) : Len(decl.methods[i].inputs) > 2

\* A function of an impl block agrees with a method of the declared trait.
Agrees(f, m) ==
    /\ f.fn_sig.ident = m.ident
    /\ Len(f.fn_sig.inputs) = Len(m.inputs)
    /\ \A k \in 2..Len(m.inputs) : f.fn_sig.inputs[k].ty = m.inputs[k].ty

Unmatched ==
    {i \in 1..Len(decl.fns) :
        \A k \in 1..Len(decl.trait_methods) : ~Agrees(decl.fns[i], decl.trait_methods[k])}

\* C16. Split equivalence: an impl block whose functions all match the
\* declared trait expands to the inherent block with the functions as
\* written, bodies included, and the trait impl with one method per function,
\* in order, that takes `_impl: &Impl<T>` and calls Self's function of the
\* same name with `_impl` and the trailing arguments.
C16_SplitEquivalence ==
    (decl.kind = "Impl" /\ expansion # Pending /\ Unmatched = {}) =>
        /\ expansion.tag = "Ok"
        /\ Len(Items) = 2
        /\ Items[1] = [kind |-> "InherentImpl", self_ty |-> decl.self_ty, fns |-> decl.fns]
        /\ Items[2].kind = "Impl"
        /\ Items[2].trait = decl.trait \o "<T>"
        /\ Items[2].self_ty = decl.self_ty
        /\ Len(Items[2].methods) = Len(decl.fns)
        /\ \A i \in 1..Len(decl.fns) :
              LET m == Items[2].methods[i]
                  f == decl.fns[i]
              IN  /\ m.ident = f.fn_sig.ident
                  /\ m.inputs = <<ImplParam>> \o Tail(f.fn_sig.inputs)
                  /\ m.target = "Self"
                  /\ m.callee = f.fn_sig.ident
                  /\ m.args = <<"_impl">> \o TrailingIdents(f.fn_sig.inputs)

C16_Witness ==
    /\ ExpansionOk("Impl")
    /\ Len(decl.fns) = MaxMethods
    /\ \E i \in 1..Len(decl.fns) : Len(decl.fns[i].fn_sig.inputs) > 2

\* C17. Mismatch detection: an impl block with a function that matches no
\* method of the declared trait, in name, in number of parameters or in the
\* types after the first, fails with SignatureMismatch naming such a
\* function, and nothing is emitted.
C17_MismatchDetection ==
    (decl.kind = "Impl" /\ expansion # Pending /\ Unmatched # {}) =>
        /\ expansion.tag = "Err"
        /\ \E i \in Unmatched : expansion = Err(SignatureMismatch(decl.fns[i].fn_sig.ident))

C17_Witness ==
    /\ ExpansionFailed("Impl")
    /\ Len(decl.fns) > 1
    /\ Unmatched = {Len(decl.fns)}
    /\ \A k \in 1..Len(decl.trait_methods) :
          decl.trait_methods[k].ident # decl.fns[Len(decl.fns)].fn_sig.ident

\* C18. Module variant: the trait generated for a module has exactly one
\* method for each function of the module that is not private, named after
\* it, in the order of the functions; a private function gives no method.
C18_ModuleTrait ==
    ExpansionOk("Mod") =>
        LET traits == ItemsOfKind("Trait")
            public == {i \in 1..Len(decl.fns) : decl.fns[i].fn_vis # ""}
            at(name) == CHOOSE i \in 1..Len(decl.fns) : decl.fns[i].fn_sig.ident = name
        IN  /\ Cardinality(traits) = 1
            /\ \A t \in traits :
                  LET ms == Items[t].methods
                  IN  /\ Items[t].ident = decl.name
                      /\ Len(ms) = Cardinality(public)
                      /\ \A i \in 1..Len(decl.fns) :
                            (i \in public) <=> (\E k \in 1..Len(ms) : ms[k].ident = decl.fns[i].fn_sig.ident)
                      /\ \A k, l \in 1..Len(ms) : k < l => at(ms[k].ident) < at(ms[l].ident)

C18_Witness ==
    /\ ExpansionOk("Mod")
    /\ Len(decl.fns) = MaxMethods
    /\ decl.fns[1].fn_vis = "pub(crate)"
    /\ decl.fns[2].fn_vis = ""
    /\ decl.fns[3].fn_vis = "pub"

(***************************************************************************)
(* Repeated resolution.  In each of two runs of the compiler the macro     *)
(* resolves one attribute after the other.  EntraitAttr::parse is followed *)
(* step by step here: its locals are state of the run, which a call finds  *)
(* as the call before left them and sets itself (input.rs:56-59).          *)
(***************************************************************************)
MaxResolutions == 2

Runs == {1, 2}

ResolveInputs ==
    {[head |-> PlainHead, opts |-> <<>>],
     [head |-> PlainHead, opts |-> <<Assign("debug", "true")>>],
     [head |-> PlainHead, opts |-> <<Assign("mockable", "true"), Assign("debug", "false")>>],
     [head |-> PlainHead, opts |-> <<Bare("debug")>>],
     [head |-> PlainHead, opts |-> <<Assign("foo", "true")>>],
     [head |-> <<>>, opts |-> <<>>]}

\* A run between two calls of EntraitAttr::parse, before the first.
IdleRun ==
    [done |-> <<>>, phase |-> "idle", head |-> <<>>, opts |-> <<>>, tokens |-> <<>>, pos |-> 1,
     trait_ident |-> "", impl_target_type |-> None, locals |-> DefaultOpts]

Resolution(run, result) == [head |-> run.head, opts |-> run.opts, result |-> result]

\* The call returns: the result is recorded, the locals stay as they are.
return_result(run, result) ==
    [run EXCEPT !.done = Append(@, Resolution(run, result)), !.phase = "idle"]

\* A mutation of EntraitAttr_begin: the locals are not set, the loop starts
\* from what the call before left in them.
EntraitAttr_begin_stale(run, in) ==
    LET tokens == AttrTokens(in.head, in.opts)
        called == [run EXCEPT !.head = in.head, !.opts = in.opts, !.tokens = tokens, !.pos = 1]
        trait_ident == parse_Ident(tokens, 1)
        impl_target_type ==
            IF peek(tokens, trait_ident.pos, "Ident", "for")
            THEN LET ty == parse_Type(tokens, trait_ident.pos + 1)
                 IN  IF ty.tag = "Err" THEN ty ELSE POk(Some(ty.val), ty.pos)
            ELSE POk(None, trait_ident.pos)
    IN  IF trait_ident.tag = "Err" THEN return_result(called, trait_ident)
        ELSE IF impl_target_type.tag = "Err" THEN return_result(called, impl_target_type)
        ELSE [called EXCEPT !.phase = "options",
                            !.pos = impl_target_type.pos,
                            !.trait_ident = trait_ident.val,
                            !.impl_target_type = impl_target_type.val]

\* EntraitAttr::parse up to its loop: the trait identifier, the target type
\* after `for`, and the four locals, set to their defaults.
EntraitAttr_begin(run, in) ==
    LET tokens == AttrTokens(in.head, in.opts)
        called == [run EXCEPT !.head = in.head, !.opts = in.opts, !.tokens = tokens, !.pos = 1]
        trait_ident == parse_Ident(tokens, 1)
        impl_target_type ==
            IF peek(tokens, trait_ident.pos, "Ident", "for")
            THEN LET ty == parse_Type(tokens, trait_ident.pos + 1)
                 IN  IF ty.tag = "Err" THEN ty ELSE POk(Some(ty.val), ty.pos)
            ELSE POk(None, trait_ident.pos)
    IN  IF trait_ident.tag = "Err" THEN return_result(called, trait_ident)
        ELSE IF impl_target_type.tag = "Err" THEN return_result(called, impl_target_type)
        ELSE [called EXCEPT !.phase = "options",
                            !.pos = impl_target_type.pos,
                            !.trait_ident = trait_ident.val,
                            !.impl_target_type = impl_target_type.val,
                            !.locals = DefaultOpts]

\* One round of the loop: the comma, the Extension, the assignment.
EntraitAttr_round(run) ==
    LET ext == Extension_parse(run.tokens, run.pos + 1)
    IN  IF ext.tag = "Err" THEN return_result(run, ext)
        ELSE [run EXCEPT !.pos = ext.pos, !.locals = apply_extension(@, ext.val)]

\* After the loop: the EntraitAttr, from the locals.
EntraitAttr_end(run) ==
    return_result(run, POk([trait_ident |-> run.trait_ident,
                            impl_target_type |-> run.impl_target_type,
                            debug |-> run.locals.debug,
                            async_trait |-> run.locals.async_trait,
                            mockable |-> run.locals.mockable,
                            mock_deps_as |-> run.locals.mock_deps],
                           run.pos))

InitResolve ==
    /\ resolved = [r \in Runs |-> IdleRun]
    /\ fn_item = NoFnItem
    /\ fn_result = Pending
    /\ attr_head = <<>>
    /\ attr_opts = <<>>
    /\ attr_result = Pending
    /\ NoRun
    /\ NoUnit
    /\ NoDecl
    /\ NoBuild
    /\ NoTest

\* The macro is invoked on an attribute: EntraitAttr::parse is called.
ResolveAttr(r, in) ==
    /\ resolved[r].phase = "idle"
    /\ Len(resolved[r].done) < MaxResolutions
    /\ resolved' = [resolved EXCEPT ![r] = EntraitAttr_begin(@, in)]
    /\ UNCHANGED <<build, test_vars, unit_vars, gen_vars, fn_item, fn_result, attr_vars, run_vars>>

\* `while input.peek(syn::token::Comma)`: a comma follows.
ParseExtension(r) ==
    /\ resolved[r].phase = "options"
    /\ peek(resolved[r].tokens, resolved[r].pos, "Punct", ",")
    /\ resolved' = [resolved EXCEPT ![r] = EntraitAttr_round(@)]
    /\ UNCHANGED <<build, test_vars, unit_vars, gen_vars, fn_item, fn_result, attr_vars, run_vars>>

\* No comma follows: the parse returns the EntraitAttr.
ReturnAttr(r) ==
    /\ resolved[r].phase = "options"
    /\ ~peek(resolved[r].tokens, resolved[r].pos, "Punct", ",")
    /\ resolved' = [resolved EXCEPT ![r] = EntraitAttr_end(@)]
    /\ UNCHANGED <<build, test_vars, unit_vars, gen_vars, fn_item, fn_result, attr_vars, run_vars>>

NextResolve ==
    \/ \E r \in Runs, in \in ResolveInputs : ResolveAttr(r, in)
    \/ \E r \in Runs : ParseExtension(r)
    \/ \E r \in Runs : ReturnAttr(r)

SpecResolve == InitResolve /\ [][NextResolve]_vars

SameAttr(x, y) == x.head = y.head /\ x.opts = y.opts

\* C23. Resolution is deterministic and pure: two resolutions of the same
\* attribute, in one run or in two, whatever was resolved before them and
\* whatever it left behind, give the same result, the same configuration or
\* the same error; and that result is the one the attribute has when it is
\* resolved alone.
C23_Deterministic ==
    \A r1, r2 \in Runs :
        \A i \in 1..Len(resolved[r1].done), j \in 1..Len(resolved[r2].done) :
            LET x == resolved[r1].done[i]
                y == resolved[r2].done[j]
            IN  /\ SameAttr(x, y) => x.result = y.result
                /\ x.result = Resolve(x.head, x.opts)

\* The same attribute is resolved first in one run, and in the other after
\* the successful resolution of a different one, which has set locals that
\* it does not set; one run resolves the same attribute twice.
C23_Witness ==
    /\ Len(resolved[1].done) = MaxResolutions
    /\ Len(resolved[2].done) = MaxResolutions
    /\ resolved[1].done[1].result.tag = "Ok"
    /\ resolved[1].done[1].result.val.debug
    /\ resolved[1].done[2].opts = <<>>
    /\ resolved[1].done[2].result.tag = "Ok"
    /\ SameAttr(resolved[1].done[2], resolved[2].done[1])
    /\ SameAttr(resolved[2].done[1], resolved[2].done[2])

(***************************************************************************)
(* Defaults of the options, checked under SpecAttr.                        *)
(***************************************************************************)
\* The value of a field of the EntraitAttr that no option has assigned.
DefaultOf(k) == IF k \in BoolKeys THEN FALSE ELSE None

\* The delegate_by option of an option list: the value of its last
\* assignment, None without one.
DelegateByOf(opts) ==
    LET at == {i \in 1..Len(opts) : opts[i].key = "delegate_by"}
    IN  IF at = {} THEN None ELSE Some(opts[Max(at)].value)

\* C25. Defaults: in a resolved attribute every option whose key does not
\* occur in the list has its default (debug, async_trait and mockable false,
\* mock_deps_as absent), whatever the other options are, so an option changes
\* its own field only; and a list without delegate_by selects the delegation
\* that `delegate_by = Self` selects.
C25_Defaults ==
    AttrResolved =>
        /\ \A k \in RecognizedKeys :
              (\A i \in OptIndices : attr_opts[i].key # k)
                  => Field(attr_result.val, k) = DefaultOf(k)
        /\ DelegateByOf(attr_opts) = None
              => strategy_of(DelegateByOf(attr_opts)) = strategy_of(Some("Self"))

C25_Witness ==
    /\ AttrResolved
    /\ Len(attr_opts) = 2
    /\ attr_opts[1] = Assign("mock_deps_as", "MockFoo")
    /\ attr_opts[2] = Assign("debug", "true")
    /\ attr_result.val.debug
    /\ ~attr_result.val.mockable

(***************************************************************************)
(* The conditional compilation of the crate (src/lib.rs): a build has a    *)
(* set of cargo features, and the compiler keeps, item by item, what the   *)
(* cfg attributes on the path to the item allow.                           *)
(***************************************************************************)
Features == {"unimock", "use-async-trait", "use-associated-future", "async-trait"}

\* The features a feature implies (crate docs, Feature overview).
Implied(f) == IF f = "use-async-trait" THEN {"async-trait"} ELSE {}

Enabled(requested) == requested \cup UNION {Implied(f) : f \in requested}

\* cfg predicates
Feature(f) == [op |-> "feature", name |-> f, args |-> <<>>]
Not(c) == [op |-> "not", name |-> "", args |-> <<c>>]
AllOf(cs) == [op |-> "all", name |-> "", args |-> cs]
AnyOf(cs) == [op |-> "any", name |-> "", args |-> cs]

\* A mutation of cfg_eval: `all` is evaluated as `any`.
RECURSIVE cfg_eval_all_as_any(_, _)
cfg_eval_all_as_any(features, cfg) ==
    CASE cfg.op = "feature" -> cfg.name \in features
      [] cfg.op = "not" -> ~cfg_eval_all_as_any(features, cfg.args[1])
      [] cfg.op = "all" ->
            \E i \in 1..Len(cfg.args) : cfg_eval_all_as_any(features, cfg.args[i])
      [] cfg.op = "any" ->
            \E i \in 1..Len(cfg.args) : cfg_eval_all_as_any(features, cfg.args[i])

RECURSIVE cfg_eval(_, _)
cfg_eval(features, cfg) ==
    CASE cfg.op = "feature" -> cfg.name \in features
      [] cfg.op = "not" -> ~cfg_eval(features, cfg.args[1])
      [] cfg.op = "all" -> \A i \in 1..Len(cfg.args) : cfg_eval(features, cfg.args[i])
      [] cfg.op = "any" -> \E i \in 1..Len(cfg.args) : cfg_eval(features, cfg.args[i])

\* `pub use entrait_macros::target as name;`
Use(name, target) == [name |-> name, target |-> target]

\* The three cfgs of the modules entrait_auto_async
UseAsyncTrait == Feature("use-async-trait")
UseAssociatedFuture ==
    AllOf(<<Feature("use-associated-future"), Not(Feature("use-async-trait"))>>)
NoAutoAsync == Not(AnyOf(<<Feature("use-async-trait"), Feature("use-associated-future")>>))

\* The cfg-gated items of lib.rs in the order of the file: the cfgs on the
\* path to the item, and the names it exports.
CfgItems ==
    <<[cfgs |-> <<Feature("unimock"), UseAsyncTrait>>,
       uses |-> {Use("entrait_export", "entrait_export_unimock_use_async_trait"),
                 Use("entrait_impl", "entrait_impl_use_async_trait"),
                 Use("entrait", "entrait_unimock_use_async_trait")}],
      [cfgs |-> <<Feature("unimock"), UseAssociatedFuture>>,
       uses |-> {Use("entrait_export", "entrait_export_unimock_use_associated_future"),
                 Use("entrait_impl", "entrait_impl_use_associated_future"),
                 Use("entrait", "entrait_unimock_use_associated_future")}],
      [cfgs |-> <<Feature("unimock"), NoAutoAsync>>,
       uses |-> {Use("entrait_export", "entrait_export_unimock"),
                 Use("entrait_impl", "entrait_impl"),
                 Use("entrait", "entrait_unimock")}],
      [cfgs |-> <<Not(Feature("unimock")), UseAsyncTrait>>,
       uses |-> {Use("entrait_export", "entrait_export_use_async_trait"),
                 Use("entrait_impl", "entrait_impl_use_async_trait"),
                 Use("entrait", "entrait_use_async_trait")}],
      [cfgs |-> <<Not(Feature("unimock")), UseAssociatedFuture>>,
       uses |-> {Use("entrait_export", "entrait_export_use_associated_future"),
                 Use("entrait_impl", "entrait_impl_use_associated_future"),
                 Use("entrait", "entrait_use_associated_future")}],
      [cfgs |-> <<Not(Feature("unimock")), NoAutoAsync>>,
       uses |-> {Use("entrait", "entrait"),
                 Use("entrait_export", "entrait_export"),
                 Use("entrait_impl", "entrait_impl")}],
      [cfgs |-> <<Feature("unimock")>>, uses |-> {Use("__unimock", "::unimock")}],
      [cfgs |-> <<Feature("async-trait")>>,
       uses |-> {Use("__async_trait::async_trait", "::async_trait::async_trait")}]>>

\* What an item contributes to a build with these features.
kept(features, item) ==
    IF \A i \in 1..Len(item.cfgs) : cfg_eval(features, item.cfgs[i])
    THEN item.uses
    ELSE {}

InitBuild ==
    /\ \E requested \in SUBSET Features :
          build = [kind |-> "Build", requested |-> requested, features |-> Enabled(requested),
                   next |-> 1, exports |-> {}]
    /\ fn_item = NoFnItem
    /\ fn_result = Pending
    /\ attr_head = <<>>
    /\ attr_opts = <<>>
    /\ attr_result = Pending
    /\ NoRun
    /\ NoUnit
    /\ NoDecl
    /\ NoResolutions
    /\ NoTest

\* The compiler comes to the next cfg-gated item.
ExpandCfgItem ==
    /\ build.next <= Len(CfgItems)
    /\ build' = [build EXCEPT !.exports = @ \cup kept(build.features, CfgItems[build.next]),
                              !.next = @ + 1]
    /\ UNCHANGED <<resolved, test_vars, unit_vars, gen_vars, fn_item, fn_result, attr_vars, run_vars>>

NextBuild == ExpandCfgItem

SpecBuild == InitBuild /\ [][NextBuild]_vars

MacroNames == {"entrait", "entrait_export", "entrait_impl"}

Built == build.next > Len(CfgItems)

\* The definitions a set of exports holds for a name.
Definitions(exports, name) == {u.target : u \in {x \in exports : x.name = name}}

\* The exports of the finished build with these features.
ExportsOf(features) == UNION {kept(features, CfgItems[i]) : i \in 1..Len(CfgItems)}

Toggled(features, f) == IF f \in features THEN features \ {f} ELSE features \cup {f}

\* C26. In every build, whatever its features, each of entrait,
\* entrait_export and entrait_impl has never two definitions and, once the
\* crate is compiled, exactly one; with both use-async-trait and
\* use-associated-future it is the use_async_trait one; and the build with
\* the feature unimock switched has the same entrait_impl and another
\* entrait and entrait_export.
C26_OneDefinition ==
    \A name \in MacroNames :
        LET defs == Definitions(build.exports, name)
            other == Definitions(ExportsOf(Toggled(build.features, "unimock")), name)
        IN  /\ Cardinality(defs) <= 1
            /\ Built =>
                  /\ Cardinality(defs) = 1
                  /\ {"use-async-trait", "use-associated-future"} \subseteq build.features =>
                        defs \subseteq {"entrait_use_async_trait",
                                        "entrait_unimock_use_async_trait",
                                        "entrait_export_use_async_trait",
                                        "entrait_export_unimock_use_async_trait",
                                        "entrait_impl_use_async_trait"}
                  /\ name = "entrait_impl" => other = defs
                  /\ name # "entrait_impl" => Cardinality(other) = 1 /\ other # defs

C26_Witness ==
    /\ Built
    /\ {"unimock", "use-async-trait", "use-associated-future"} \subseteq build.features
    /\ Definitions(build.exports, "entrait") = {"entrait_unimock_use_async_trait"}

(***************************************************************************)
(* Tests of entraited functions against a dependency value: Impl, or a     *)
(* unimock spy.  Every generated trait is implemented for both; a method   *)
(* called on the spy answers from a call pattern that matches, and else    *)
(* "un-mocks": it runs the original function with the spy as dependency.   *)
(***************************************************************************)
\* `Impl::new(())` and `unimock::spy(clauses)`: the clauses for each call in
\* any order, those for the next call in order, and how many of these are
\* consumed; the clones of a spy share it.
ImplDeps == [kind |-> "Impl"]
Spy(each, ordered) == [kind |-> "Spy", each |-> each, ordered |-> ordered, used |-> 0]

\* `method::Fn.each_call(matching!(pattern)).returns(value).in_any_order()`,
\* the pattern being the set of arguments it matches
EachCall(method, pattern, value) == [method |-> method, pattern |-> pattern, value |-> value]

\* `method::Fn.next_call(matching!()).returns(value).once().in_order()`
NextCall(method, value) == [method |-> method, value |-> value]

Answer(value, m) == [hit |-> TRUE, value |-> value, mock |-> m]
Unmock(m) == [hit |-> FALSE, value |-> 0, mock |-> m]

\* A mutation of resolve_call: a clause for each call answers whatever the
\* argument is.
resolve_call_any_argument(m, method, arg) ==
    IF m.kind = "Impl" THEN Unmock(m)
    ELSE IF m.used < Len(m.ordered) /\ m.ordered[m.used + 1].method = method
    THEN Answer(m.ordered[m.used + 1].value, [m EXCEPT !.used = @ + 1])
    ELSE IF \E c \in m.each : c.method = method
    THEN Answer((CHOOSE c \in m.each : c.method = method).value, m)
    ELSE Unmock(m)

\* A mutation of resolve_call: a clause for the next call is not consumed.
resolve_call_not_consumed(m, method, arg) ==
    IF m.kind = "Impl" THEN Unmock(m)
    ELSE IF m.used < Len(m.ordered) /\ m.ordered[m.used + 1].method = method
    THEN Answer(m.ordered[m.used + 1].value, m)
    ELSE IF \E c \in m.each : c.method = method /\ arg \in c.pattern
    THEN Answer((CHOOSE c \in m.each : c.method = method /\ arg \in c.pattern).value, m)
    ELSE Unmock(m)

\* A call of a trait method on the dependency value: Impl runs the function;
\* the spy answers from the next clause in order, if it is one for the
\* method, or from a matching clause for each call, and else runs the function.
resolve_call(m, method, arg) ==
    IF m.kind = "Impl" THEN Unmock(m)
    ELSE IF m.used < Len(m.ordered) /\ m.ordered[m.used + 1].method = method
    THEN Answer(m.ordered[m.used + 1].value, [m EXCEPT !.used = @ + 1])
    ELSE IF \E c \in m.each : c.method = method /\ arg \in c.pattern
    THEN Answer((CHOOSE c \in m.each : c.method = method /\ arg \in c.pattern).value, m)
    ELSE Unmock(m)

\* ---- a chain of entraited functions, called with Impl and then with the spy ----

\* What the last function of a chain returns, and what overrides return.
OriginalValue == "name"
OverrideValues == {"foobar", "World"}

\* matching!(_), matching!(21), matching!(42)
Patterns == {ArgValues} \cup {{v} : v \in ArgValues}

\* The spies of a chain: at most one clause for each dependency method, the
\* methods being those of the levels after the first.
ChainClauses(chain) ==
    {cs \in SUBSET {EachCall(k, p, v) : k \in 2..chain, p \in Patterns, v \in OverrideValues} :
        \A c, d \in cs : c.method = d.method => c = d}

ChainTests ==
    UNION {{[mock |-> Spy(cs, <<>>),
             exec |-> [kind |-> "Chain", chain |-> n, arg |-> a, phase |-> "impl",
                       pc |-> "start", stack |-> <<>>, log |-> <<>>, ret |-> <<>>,
                       first |-> <<>>]] :
                a \in ArgValues, cs \in ChainClauses(n)} : n \in 1..MaxChain}

\* The dependency value of the phase: Impl first, then the spy.
PhaseDeps == IF exec.phase = "impl" THEN ImplDeps ELSE mock

Ran(level, deps) == [level |-> level, deps |-> deps.kind]

\* The test calls the first function with the dependency value.
CallFunction ==
    /\ exec.kind = "Chain"
    /\ exec.pc = "start"
    /\ exec' = [exec EXCEPT !.stack = <<1>>, !.log = <<Ran(1, PhaseDeps)>>, !.pc = "body"]
    /\ UNCHANGED <<mock, resolved, build, unit_vars, gen_vars, fn_item, fn_result, attr_vars, run_vars>>

\* The function on top calls the method of the next level on its dependency:
\* the spy answers, or the function of that level runs.
CallDependencyMethod ==
    /\ exec.kind = "Chain"
    /\ exec.pc = "body"
    /\ exec.stack[Len(exec.stack)] < exec.chain
    /\ LET next == exec.stack[Len(exec.stack)] + 1
           r == resolve_call(PhaseDeps, next, exec.arg)
       IN  /\ exec' = IF r.hit
                      THEN [exec EXCEPT !.ret = <<r.value>>, !.pc = "return"]
                      ELSE [exec EXCEPT !.stack = Append(@, next),
                                        !.log = Append(@, Ran(next, PhaseDeps))]
           /\ mock' = IF exec.phase = "impl" THEN mock ELSE r.mock
    /\ UNCHANGED <<resolved, build, unit_vars, gen_vars, fn_item, fn_result, attr_vars, run_vars>>

\* The last function of the chain returns.
ReturnOriginal ==
    /\ exec.kind = "Chain"
    /\ exec.pc = "body"
    /\ exec.stack[Len(exec.stack)] = exec.chain
    /\ exec' = [exec EXCEPT !.ret = <<OriginalValue>>, !.pc = "return",
                            !.stack = SubSeq(@, 1, Len(@) - 1)]
    /\ UNCHANGED <<mock, resolved, build, unit_vars, gen_vars, fn_item, fn_result, attr_vars, run_vars>>

\* A function returns what its dependency returned.
ReturnUp ==
    /\ exec.kind = "Chain"
    /\ exec.pc = "return"
    /\ exec.stack # <<>>
    /\ exec' = [exec EXCEPT !.stack = SubSeq(@, 1, Len(@) - 1)]
    /\ UNCHANGED <<mock, resolved, build, unit_vars, gen_vars, fn_item, fn_result, attr_vars, run_vars>>

\* The call of the test has returned: after Impl the spy, then the end.
NextPhase ==
    /\ exec.kind = "Chain"
    /\ exec.pc = "return"
    /\ exec.stack = <<>>
    /\ exec' = IF exec.phase = "impl"
               THEN [exec EXCEPT !.first = <<[ret |-> exec.ret, log |-> exec.log]>>,
                                 !.phase = "spy", !.pc = "start", !.log = <<>>, !.ret = <<>>]
               ELSE [exec EXCEPT !.phase = "done", !.pc = "done"]
    /\ UNCHANGED <<mock, resolved, build, unit_vars, gen_vars, fn_item, fn_result, attr_vars, run_vars>>

\* ---- tokio_spawn::spawning: two tasks that call `bar` on clones ----

\* `[deps.clone(), deps.clone()]`, and the value of `bar`
NumTasks == 2
BarValue == 1

\* The values the clauses of test_spawning_override_bar return.
OrderedValues == {1, 2}

\* The dependency values of the tests: Impl, the spy without clause, and the
\* spy with one clause in order for each call of `bar`.
SpawnTests ==
    {[mock |-> m,
      exec |-> [kind |-> "Spawn", pc |-> "loop", spawned |-> 0, joined |-> 0,
                tasks |-> [t \in 1..NumTasks |-> [done |-> FALSE, value |-> 0]],
                result |-> 0, log |-> <<>>]] :
        m \in {ImplDeps, Spy({}, <<>>)}
              \cup {Spy({}, [t \in 1..NumTasks |-> NextCall("bar", vs[t])]) :
                        vs \in [1..NumTasks -> OrderedValues]}}

\* `for handle in handles`: the iterator over the clones is lazy, so the
\* next task is spawned when the loop asks for its handle.
SpawnTask ==
    /\ exec.kind = "Spawn"
    /\ exec.pc = "loop"
    /\ exec.spawned < NumTasks
    /\ exec.spawned = exec.joined
    /\ exec' = [exec EXCEPT !.spawned = @ + 1]
    /\ UNCHANGED <<mock, resolved, build, unit_vars, gen_vars, fn_item, fn_result, attr_vars, run_vars>>

\* A spawned task runs: `deps.bar().await` on its clone.
TaskCallsBar(t) ==
    /\ exec.kind = "Spawn"
    /\ t <= exec.spawned
    /\ ~exec.tasks[t].done
    /\ LET r == resolve_call(mock, "bar", 0)
       IN  /\ exec' = [exec EXCEPT
                          !.tasks[t] = [done |-> TRUE,
                                        value |-> IF r.hit THEN r.value ELSE BarValue],
                          !.log = IF r.hit THEN @ ELSE Append(@, [task |-> t, deps |-> mock.kind])]
           /\ mock' = r.mock
    /\ UNCHANGED <<resolved, build, unit_vars, gen_vars, fn_item, fn_result, attr_vars, run_vars>>

\* `result += handle.await.unwrap()`
AwaitHandle ==
    /\ exec.kind = "Spawn"
    /\ exec.pc = "loop"
    /\ exec.joined < exec.spawned
    /\ exec.tasks[exec.joined + 1].done
    /\ exec' = [exec EXCEPT !.result = @ + exec.tasks[exec.joined + 1].value,
                            !.joined = @ + 1]
    /\ UNCHANGED <<mock, resolved, build, unit_vars, gen_vars, fn_item, fn_result, attr_vars, run_vars>>

\* The loop is over: `spawning` returns the result.
ReturnResult ==
    /\ exec.kind = "Spawn"
    /\ exec.pc = "loop"
    /\ exec.joined = NumTasks
    /\ exec' = [exec EXCEPT !.pc = "done"]
    /\ UNCHANGED <<mock, resolved, build, unit_vars, gen_vars, fn_item, fn_result, attr_vars, run_vars>>

InitTest ==
    /\ \E t \in ChainTests \cup SpawnTests : mock = t.mock /\ exec = t.exec
    /\ fn_item = NoFnItem
    /\ fn_result = Pending
    /\ attr_head = <<>>
    /\ attr_opts = <<>>
    /\ attr_result = Pending
    /\ NoRun
    /\ NoUnit
    /\ NoDecl
    /\ NoResolutions
    /\ NoBuild

NextTest ==
    \/ CallFunction
    \/ CallDependencyMethod
    \/ ReturnOriginal
    \/ ReturnUp
    \/ NextPhase
    \/ SpawnTask
    \/ \E t \in 1..NumTasks : TaskCallsBar(t)
    \/ AwaitHandle
    \/ ReturnResult

SpecTest == InitTest /\ [][NextTest]_vars

(***************************************************************************)
(* Properties of the tests, checked under SpecTest.                        *)
(***************************************************************************)
ChainDone == exec.kind = "Chain" /\ exec.phase = "done"

\* The levels whose method the spy answers for the argument of the test.
Overridden == {c.method : c \in {d \in mock.each : exec.arg \in d.pattern}}

\* C21. Un-mocking: in the call with the spy the functions run level by
\* level, with the spy as dependency, down to the first level whose method has
\* a matching override; the call returns the value of that override and
\* no function of that level or a later one runs; without such a level
\* every function runs and the result and the functions that ran are those
\* of the call with Impl.
C21_Unmocking ==
    ChainDone =>
        LET hit == {k \in Overridden : k <= exec.chain}
            stop == IF hit = {} THEN exec.chain ELSE Min(hit) - 1
        IN  /\ exec.log = [k \in 1..stop |-> Ran(k, mock)]
            /\ hit # {} =>
                  \E c \in mock.each :
                      /\ c.method = Min(hit)
                      /\ exec.arg \in c.pattern
                      /\ exec.ret = <<c.value>>
            /\ hit = {} =>
                  /\ exec.ret = exec.first[1].ret
                  /\ [k \in 1..Len(exec.log) |-> exec.log[k].level]
                        = [k \in 1..Len(exec.first[1].log) |-> exec.first[1].log[k].level]
            /\ exec.first[1].ret = <<OriginalValue>>
            /\ exec.first[1].log = [k \in 1..exec.chain |-> Ran(k, ImplDeps)]

\* A chain of full length whose last method has an override that matches,
\* and one whose override does not match the argument.
C21_Witness ==
    /\ ChainDone
    /\ exec.chain = MaxChain
    /\ \E c \in mock.each : c.method = exec.chain /\ exec.arg \in c.pattern
    /\ exec.ret # exec.first[1].ret

SpawnDone == exec.kind = "Spawn" /\ exec.pc = "done"

\* C22, as claimed: the two tasks are concurrent: both are spawned before
\* the function awaits either, so that their calls of `bar` may interleave.
C22_AsClaimed ==
    (exec.kind = "Spawn" /\ exec.joined >= 1) => exec.spawned = NumTasks

\* C22, amended.  The two tasks of `spawning` are not concurrent: the
\* second is spawned only when the first has been awaited, so the first
\* task calls `bar` before the second does, in every behaviour.  The result
\* is the sum of the two calls: twice the value of `bar` with Impl and with
\* the spy without clause, and the sum of the values of the two clauses with
\* the spy that holds them, 3 for the values 1 and 2; each clause is
\* consumed by one call, the first clause by the first task.
C22_SpawnedSum ==
    /\ exec.kind = "Spawn" =>
          /\ exec.spawned <= exec.joined + 1
          /\ \A t \in 2..NumTasks : exec.tasks[t].done => exec.tasks[t - 1].done
    /\ (exec.kind = "Spawn" /\ mock.kind = "Spy") =>
          /\ mock.used <= Len(mock.ordered)
          /\ mock.ordered # <<>> =>
                /\ mock.used = Cardinality({t \in 1..NumTasks : exec.tasks[t].done})
                /\ exec.log = <<>>
                /\ \A t \in 1..NumTasks :
                      exec.tasks[t].done => exec.tasks[t].value = mock.ordered[t].value
    /\ SpawnDone =>
          /\ exec.result = exec.tasks[1].value + exec.tasks[2].value
          /\ mock.kind = "Impl" => exec.result = 2
          /\ (mock.kind = "Spy" /\ mock.ordered = <<>>) => exec.result = 2
          /\ (mock.kind = "Spy" /\ mock.ordered # <<>>) =>
                /\ mock.used = NumTasks
                /\ exec.result = mock.ordered[1].value + mock.ordered[2].value
                /\ (mock.ordered[1].value = 1 /\ mock.ordered[2].value = 2) => exec.result = 3

C22_Witness ==
    /\ SpawnDone
    /\ mock.kind = "Spy"
    /\ mock.ordered = <<NextCall("bar", 1), NextCall("bar", 2)>>
    /\ exec.result = 3

====
